---- MODULE Spec2Model ----
(***************************************************************************)
(* cloudget: the chunked download engine.                                  *)
(*                                                                         *)
(*   pkg/utils/http.go          HTTPClient: GetFileInfo, DownloadChunk,    *)
(*                              DownloadToFile, downloadSimple,            *)
(*                              downloadChunked, calculateChunks           *)
(*   pkg/downloader/manager.go  Manager.Download and its helpers           *)
(*                                                                         *)
(* The specifications share the variables:                                 *)
(*   SpecPlan            calculateChunks applied to bounded inputs         *)
(*   SpecChunk           one call of HTTPClient.DownloadChunk              *)
(*   SpecChunked         one call of HTTPClient.downloadChunked            *)
(*   Spec                one call of Manager.Download                      *)
(*   SpecResume          calls on a ResumeManager                          *)
(*   SpecRoundTrip       SaveProgress followed by LoadProgress             *)
(*   SpecResumeDownload  Manager.Resume over a partial file                *)
(*   SpecTracker         concurrent calls on a progress.Tracker            *)
(*   SpecBatch           the batch loop of the command line                *)
(*   SpecPath            Manager.determineOutputPath                       *)
(*   SpecRegistry        Manager.RegisterService and FindService           *)
(*   SpecCleanup         ResumeManager.CleanupOldResumeData                *)
(*   SpecCalls           the Tracker's methods called concurrently         *)
(*   SpecCallsFair       SpecCalls under fair scheduling                   *)
(*   SpecWait            Tracker.WaitForCompletion with a cancellable ctx  *)
(*   SpecWaitFair        SpecWait under fair scheduling                    *)
(***************************************************************************)
EXTENDS Integers, Sequences, FiniteSets, TLC

VARIABLES
    entry,        \* the call under study: "plan", "chunk", "manager", "tracker", ...
    pc,           \* position of the running call
    ctxDone,      \* the context passed to the call has been cancelled
    totalSize,    \* downloadChunked / calculateChunks argument
    chunkSize,    \* downloadChunked / calculateChunks argument
    chunks,       \* the plan calculateChunks returned
    remote,       \* size of the remote resource; its byte at offset i is i + 1
    fileInfo,     \* DownloadToFile: the FileInfo the HEAD probe returned
    mkdirCalled,  \* determineOutputPath has called os.MkdirAll(outputDir)
    chunk,        \* DownloadChunk argument: the range being fetched
    dcOptions,    \* DownloadChunk argument: *DownloadOptions (nil, or its fields)
    attempt,      \* DownloadChunk loop variable
    delays,       \* retry delays DownloadChunk has waited out in this call
    timerFired,   \* time.After(retryDelay) has fired in the pending select
    lastErr,      \* DownloadChunk lastErr
    restyTry,     \* resty's own attempt number inside one req.Get / req.Head
    wire,         \* GET requests this DownloadChunk call has put on the wire
    resp,         \* the response of the current attempt
    dcRet,        \* what DownloadChunk returned
    fetched,      \* history: calls of DownloadChunk that returned their bytes
    chunkIdx,     \* downloadChunked: index of the chunk being processed
    downloaded,   \* downloadChunked: local byte counter
    writes,       \* history: the WriteAt calls made, <<offset, length>>
    serverExact,  \* the server answers every range request with exactly its bytes
    file,         \* the output path on disk: NoFile or the file's bytes
    httpUsed,     \* the manager's HTTPClient has sent a request (HEAD or GET)
    dlErr,        \* what DownloadToFile / downloadChunked returned
    errRange,     \* the Start-End range named in dlErr's message, if any
    mgr,          \* Manager.options and the DownloadRequest
    probed,       \* fileInfo.Size the service's probe reported
    sawCancel,    \* history: the context was cancelled before any chunk completed
    result,        \* what Manager.Download returned
    progress,     \* the *ResumeData the caller passes to SaveProgress
    store,        \* resumeDir: resume filename -> the file kept under it
    outputs,      \* output path -> what os.Stat reports for it
    saver,        \* the os.WriteFile of a SaveProgress that is under way
    rmLast,       \* the ResumeManager call that returned last, with its results
    rmPrev,       \* the ResumeManager call that returned before it
    rmCalls,      \* number of ResumeManager calls made
    inFlight,     \* calls of DownloadChunk that have started and not returned
    tracker,      \* progress.Tracker: one tracked download and the calls on it
    cli,          \* main: the batch loop over the URL list
    outPath,      \* a call of Manager.determineOutputPath and the directories
    services,     \* Manager.services and the last FindService
    cleanup,      \* a call of ResumeManager.CleanupOldResumeData
    tcalls,       \* progress.Tracker: concurrent calls of its methods
    reports       \* history: the calls of ProgressFunc, <<downloaded, total>>

vars == <<entry, pc, ctxDone, totalSize, chunkSize, chunks, remote, chunk, dcOptions, attempt,
          delays, timerFired, lastErr, restyTry, wire, resp, dcRet, fetched,
          chunkIdx, downloaded, writes, serverExact, reports, inFlight, tracker, cli, outPath, services, cleanup, tcalls, mkdirCalled, fileInfo, file, httpUsed, dlErr, errRange, mgr,
          probed, sawCancel, result,
          progress, store, outputs, saver, rmLast, rmPrev, rmCalls>>

\* the state of the download calls
downloadVars == <<entry, pc, ctxDone, totalSize, chunkSize, chunks, remote,
                  fileInfo, mkdirCalled, chunk, dcOptions, attempt, delays,
                  timerFired, lastErr, restyTry, wire, resp, dcRet, fetched,
                  chunkIdx, downloaded, writes, serverExact, reports, inFlight, file, httpUsed,
                  dlErr, errRange, mgr, probed, sawCancel, result>>

\* the tracker, the command line, the path planner, the service registry,
\* the cleanup of old resume data and the concurrent calls of the tracker
toolVars == <<tracker, cli, outPath, services, cleanup, tcalls>>

\* the state of the ResumeManager and of the files it looks at
resumeVars == <<progress, store, outputs, saver, rmLast, rmPrev, rmCalls>>


(***************************************************************************)
(* Bounds of the model.                                                    *)
(***************************************************************************)
MaxPlanTotal == 12
MaxPlanChunk == 7
MaxTotal == 3
MaxChunk == 2
MaxOptRetries == 4
MaxTime == 2
MaxDownloaded == 11
MaxResumeCalls == 2
MaxChunkBytes == 2
MaxBatch == 3
MaxServices == 3

(***************************************************************************)
(* Program constants.                                                      *)
(***************************************************************************)
DefaultMaxRetries == 3
DefaultRetryDelay == 2000000000
ManagerRetryDelay == 2000000000
Nanosecond == 1
RestyRetryCount == 3
ManagerMaxRetries == 3
DefaultMaxConnections == 8
DefaultChunkSize == 1048576
StatusOK == 200
StatusPartialContent == 206
StatusRangeNotSatisfiable == 416
StatusInternalServerError == 500

\* the output path: absent, or a regular file holding data
NoFile == [exists |-> FALSE, data |-> <<>>]
FileOf(bytes) == [exists |-> TRUE, data |-> bytes]

NoResp == [status |-> 0, body |-> <<>>]
NoRet == [returned |-> FALSE, err |-> <<>>, data |-> <<>>]

RECURSIVE SumSizes(_)
SumSizes(cs) == IF cs = <<>> THEN 0 ELSE Head(cs).Size + SumSizes(Tail(cs))

(***************************************************************************)
(* calculateChunks                                                         *)
(***************************************************************************)
chunkMoreOffByOne(start, total) == start <= total

\* the loop condition: start < totalSize
chunkMore(start, total) == start < total

chunkEndNoClamp(start, total, size) == start + size - 1

\* end := start + chunkSize - 1; if end >= totalSize { end = totalSize - 1 }
chunkEnd(start, total, size) ==
    LET end == start + size - 1
    IN  IF end >= total THEN total - 1 ELSE end

RECURSIVE chunkLoop(_, _, _, _)
chunkLoop(start, total, size, acc) ==
    IF chunkMore(start, total)
    THEN LET end == chunkEnd(start, total, size)
         IN  chunkLoop(start + size, total, size,
                       Append(acc, [Start |-> start, End |-> end,
                                    Size |-> end - start + 1]))
    ELSE acc

calculateChunks(total, size) == chunkLoop(0, total, size, <<>>)

(***************************************************************************)
(* Errors are chains of messages, outermost first (fmt.Errorf with %w     *)
(* wraps the cause); the nil error is the empty chain.                     *)
(***************************************************************************)
NilErr == <<>>
CtxErr == <<"context canceled">>
ConnErr == <<"connection error">>
Wrap(msg, err) == <<msg>> \o err
IsCtxErr(err) == err # <<>> /\ err[Len(err)] = "context canceled"

(***************************************************************************)
(* The remote resource and the responses a server can give to a range      *)
(* request.                                                                *)
(***************************************************************************)
Remote(n) == [i \in 1..n |-> i]
RangeBytes(s, e) == [i \in 1..(e - s + 1) |-> s + i]
Garbled(n) == [i \in 1..n |-> 0]

Statuses == {StatusOK, StatusPartialContent, StatusRangeNotSatisfiable,
             StatusInternalServerError}

\* the requested bytes; one byte short; one byte long; the right number of
\* wrong bytes; the whole resource (a server that ignores the Range header)
Bodies(c) ==
    LET exact == RangeBytes(c.Start, c.End)
    IN  IF serverExact
        THEN { exact }
        ELSE { exact,
               SubSeq(exact, 1, Len(exact) - 1),
               exact \o <<0>>,
               Garbled(Len(exact)),
               Remote(remote) }

Responses(c) == [status : Statuses, body : Bodies(c)]

(***************************************************************************)
(* HTTPClient.DownloadChunk                                                *)
(***************************************************************************)
\* RetryDelay is a time.Duration, a number of nanoseconds
NilOptions ==
    [nil |-> TRUE, MaxRetries |-> 0, RetryDelay |-> 0, ProgressFunc |-> FALSE]

\* retryDelay := 2 * time.Second; if options != nil && options.RetryDelay > 0
\* { retryDelay = options.RetryDelay }
retryDelay(options) ==
    IF ~options.nil /\ options.RetryDelay > 0
    THEN options.RetryDelay
    ELSE DefaultRetryDelay

\* time.After(d): the timer has run out as soon as it is made only when d is
\* not positive; how much later a positive delay runs out is up to the clock
expiresAtOnce(d) == d <= 0

maxRetriesOneLess(options) ==
    IF ~options.nil /\ options.MaxRetries > 0
    THEN options.MaxRetries - 1
    ELSE DefaultMaxRetries - 1

\* maxRetries := 3; if options != nil && options.MaxRetries > 0 { ... }
maxRetries(options) ==
    IF ~options.nil /\ options.MaxRetries > 0
    THEN options.MaxRetries
    ELSE DefaultMaxRetries

statusAcceptedBelow500(status) == status < StatusInternalServerError

\* resp.StatusCode() != 206 && resp.StatusCode() != 200  =>  failed attempt
statusAccepted(status) ==
    status = StatusPartialContent \/ status = StatusOK

lengthAcceptedAtMost(body, c) == Len(body) <= c.Size

\* int64(len(body)) != chunk.Size  =>  failed attempt
lengthAccepted(body, c) == Len(body) = c.Size

\* h.DownloadChunk(ctx, urlStr, chunk, options) is called ...
callStarts(n) == n + 1

callReturnsLater(n) == n

\* ... and the caller goes on when it has returned
callReturns(n) == n - 1

\* the state a call of DownloadChunk(ctx, url, c, options) starts in
EnterDownloadChunk(c, options) ==
    /\ chunk' = c
    /\ dcOptions' = options
    /\ attempt' = 0
    /\ delays' = 0
    /\ timerFired' = FALSE
    /\ lastErr' = NilErr
    /\ restyTry' = 0
    /\ wire' = 0
    /\ resp' = NoResp
    /\ dcRet' = NoRet
    /\ inFlight' = callStarts(inFlight)
    /\ pc' = "dc_loop"

UnchangedOuter ==
    UNCHANGED <<entry, totalSize, chunkSize, chunks, remote, chunkIdx,
                downloaded, writes, file, dlErr, errRange, mgr, probed, result>>

DCReturn(err, data) ==
    /\ dcRet' = [returned |-> TRUE, err |-> err, data |-> data]
    /\ inFlight' = callReturns(inFlight)
    /\ pc' = "dc_ret"

\* attempt > maxRetries: the loop ends, the last error is wrapped and returned
DC_Exhausted ==
    /\ pc = "dc_loop"
    /\ attempt > maxRetries(dcOptions)
    /\ DCReturn(Wrap("failed to download chunk after attempts", lastErr), <<>>)
    /\ UNCHANGED <<ctxDone, chunk, dcOptions, attempt, delays, timerFired,
                   lastErr, restyTry, wire, resp, serverExact, reports, toolVars, resumeVars, mkdirCalled, fileInfo, httpUsed, sawCancel, fetched>>
    /\ UnchangedOuter

\* attempt = 0: the request is sent without a delay
DC_FirstAttempt ==
    /\ pc = "dc_loop"
    /\ attempt <= maxRetries(dcOptions)
    /\ attempt = 0
    /\ pc' = "dc_get"
    /\ restyTry' = 0
    /\ UNCHANGED <<ctxDone, chunk, dcOptions, attempt, delays, timerFired,
                   lastErr, wire, resp, dcRet, serverExact, reports, inFlight, toolVars, resumeVars, mkdirCalled, fileInfo, httpUsed, sawCancel, fetched>>
    /\ UnchangedOuter

\* attempt > 0: select { case <-ctx.Done(): ...; case <-time.After(retryDelay): }
\* The timer is made and the select looks at its cases; nothing bounds the
\* time between the two, so with a context that is already cancelled the
\* timer may be ready as well, whatever the delay.
DC_RetryWait ==
    /\ pc = "dc_loop"
    /\ attempt <= maxRetries(dcOptions)
    /\ attempt > 0
    /\ pc' = "dc_wait"
    /\ timerFired' = expiresAtOnce(retryDelay(dcOptions))
    /\ UNCHANGED <<dcRet, inFlight>>
    /\ UNCHANGED <<ctxDone, chunk, dcOptions, attempt, delays, lastErr,
                   restyTry, wire, resp, serverExact, reports, toolVars, resumeVars, mkdirCalled, fileInfo, httpUsed, sawCancel, fetched>>
    /\ UnchangedOuter

\* the retry delay elapses, before the select looks at its cases or while it
\* is pending
DC_TimerFires ==
    /\ pc = "dc_wait"
    /\ ~timerFired
    /\ timerFired' = TRUE
    /\ UNCHANGED <<pc, ctxDone, chunk, dcOptions, attempt, delays, lastErr,
                   restyTry, wire, resp, dcRet, serverExact, reports, inFlight, toolVars, resumeVars, mkdirCalled, fileInfo, httpUsed, sawCancel, fetched>>
    /\ UnchangedOuter

DC_SelectDoneSleeps == FALSE /\ UNCHANGED vars

\* case <-ctx.Done(): return nil, ctx.Err()
DC_SelectDone ==
    /\ pc = "dc_wait"
    /\ ctxDone
    /\ DCReturn(CtxErr, <<>>)
    /\ UNCHANGED <<ctxDone, chunk, dcOptions, attempt, delays, timerFired,
                   lastErr, restyTry, wire, resp, serverExact, reports, toolVars, resumeVars, mkdirCalled, fileInfo, httpUsed, sawCancel, fetched>>
    /\ UnchangedOuter

\* case <-time.After(retryDelay): go on to the request
DC_SelectTimer ==
    /\ pc = "dc_wait"
    /\ timerFired
    /\ delays' = delays + 1
    /\ restyTry' = 0
    /\ pc' = "dc_get"
    /\ UNCHANGED <<ctxDone, chunk, dcOptions, attempt, timerFired, lastErr,
                   wire, resp, dcRet, serverExact, reports, inFlight, toolVars, resumeVars, mkdirCalled, fileInfo, httpUsed, sawCancel, fetched>>
    /\ UnchangedOuter

\* req.Get returned an error: lastErr is set and the loop continues
GetFailed(cause) ==
    /\ lastErr' = Wrap("HTTP request failed", cause)
    /\ attempt' = attempt + 1
    /\ pc' = "dc_loop"

\* req.Get(urlStr): the transport refuses a cancelled context before sending,
\* otherwise the request goes out
DC_Send ==
    /\ pc = "dc_get"
    /\ IF ctxDone
       THEN GetFailed(CtxErr) /\ UNCHANGED <<wire, httpUsed>>
       ELSE /\ wire' = wire + 1
            /\ httpUsed' = TRUE
            /\ pc' = "dc_flight"
            /\ UNCHANGED <<lastErr, attempt>>
    /\ UNCHANGED <<ctxDone, chunk, dcOptions, delays, timerFired, restyTry,
                   resp, dcRet, serverExact, reports, inFlight, toolVars, resumeVars, mkdirCalled, fileInfo, sawCancel, fetched>>
    /\ UnchangedOuter

\* the request in flight ends with a response
DC_Response ==
    /\ pc = "dc_flight"
    /\ ~ctxDone
    /\ \E r \in Responses(chunk) : resp' = r
    /\ pc' = "dc_check"
    /\ UNCHANGED <<ctxDone, chunk, dcOptions, attempt, delays, timerFired,
                   lastErr, restyTry, wire, dcRet, serverExact, reports, inFlight, toolVars, resumeVars, mkdirCalled, fileInfo, httpUsed, sawCancel,
                   fetched>>
    /\ UnchangedOuter

\* the request in flight ends with a transport error; resty (SetRetryCount)
\* waits and sends it again unless the context is done or its retries are used
DC_TransportError ==
    /\ pc = "dc_flight"
    /\ IF ctxDone
       THEN GetFailed(CtxErr) /\ UNCHANGED restyTry
       ELSE IF restyTry < RestyRetryCount
            THEN /\ restyTry' = restyTry + 1
                 /\ pc' = "dc_rwait"
                 /\ UNCHANGED <<lastErr, attempt>>
            ELSE GetFailed(ConnErr) /\ UNCHANGED restyTry
    /\ UNCHANGED <<ctxDone, chunk, dcOptions, delays, timerFired, wire, resp,
                   dcRet, serverExact, reports, inFlight, toolVars, resumeVars, mkdirCalled, fileInfo, httpUsed, sawCancel, fetched>>
    /\ UnchangedOuter

\* resty's wait between its retries elapses, or the context ends it
DC_RestyWait ==
    /\ pc = "dc_rwait"
    /\ \/ pc' = "dc_get" /\ UNCHANGED <<lastErr, attempt>>
       \/ ctxDone /\ GetFailed(CtxErr)
    /\ UNCHANGED <<ctxDone, chunk, dcOptions, delays, timerFired, restyTry,
                   wire, resp, dcRet, serverExact, reports, inFlight, toolVars, resumeVars, mkdirCalled, fileInfo, httpUsed, sawCancel, fetched>>
    /\ UnchangedOuter

\* the status and length checks on the response of this attempt
DC_Check ==
    /\ pc = "dc_check"
    /\ IF ~statusAccepted(resp.status)
       THEN /\ lastErr' = <<"unexpected status code">>
            /\ attempt' = attempt + 1
            /\ resp' = NoResp
            /\ pc' = "dc_loop"
            /\ UNCHANGED <<dcRet, fetched, inFlight>>
       ELSE IF ~lengthAccepted(resp.body, chunk)
            THEN /\ lastErr' = <<"received wrong byte count">>
                 /\ attempt' = attempt + 1
                 /\ resp' = NoResp
                 /\ pc' = "dc_loop"
                 /\ UNCHANGED <<dcRet, fetched, inFlight>>
            ELSE /\ DCReturn(NilErr, resp.body)
                 /\ fetched' = fetched + 1
                 /\ UNCHANGED <<lastErr, attempt, resp>>
    /\ UNCHANGED <<ctxDone, chunk, dcOptions, delays, timerFired, restyTry,
                   wire, serverExact, reports, toolVars, resumeVars, mkdirCalled, fileInfo, httpUsed, sawCancel>>
    /\ UnchangedOuter

NextDownloadChunk ==
    \/ DC_Exhausted
    \/ DC_FirstAttempt
    \/ DC_RetryWait
    \/ DC_TimerFires
    \/ DC_SelectDone
    \/ DC_SelectTimer
    \/ DC_Send
    \/ DC_Response
    \/ DC_TransportError
    \/ DC_RestyWait
    \/ DC_Check

(***************************************************************************)
(* HTTPClient.downloadChunked                                              *)
(***************************************************************************)
\* the options Manager.Download builds: MaxRetries: 3
ManagerDownloadOptions ==
    [nil |-> FALSE, MaxRetries |-> ManagerMaxRetries,
     RetryDelay |-> ManagerRetryDelay, ProgressFunc |-> TRUE]

Max(a, b) == IF a > b THEN a ELSE b

\* file.WriteAt(data, off): the bytes land at absolute offset off; a gap
\* before off reads as zero bytes
WriteAt(f, data, off) ==
    FileOf([i \in 1..Max(Len(f.data), off + Len(data)) |->
               IF i > off /\ i <= off + Len(data) THEN data[i - off]
               ELSE IF i <= Len(f.data) THEN f.data[i]
               ELSE 0])

writeOffsetZero(c) == 0

\* file.WriteAt(data, chunk.Start)
writeOffset(c) == c.Start

UnchangedChunkCall ==
    UNCHANGED <<chunk, dcOptions, attempt, delays, timerFired, lastErr,
                restyTry, wire, resp, dcRet, fetched>>

\* DownloadChunk's frame is gone once the caller has taken what it returned
LeaveDownloadChunk ==
    /\ attempt' = 0 /\ delays' = 0 /\ timerFired' = FALSE /\ lastErr' = NilErr
    /\ restyTry' = 0 /\ wire' = 0 /\ resp' = NoResp /\ dcRet' = NoRet
    /\ UNCHANGED <<chunk, dcOptions, fetched>>

UnchangedManager == UNCHANGED <<mgr, probed, result>>

DLReturn(err, range) ==
    /\ dlErr' = err
    /\ errRange' = range
    /\ pc' = "tf_ret"

\* os.Create(filename) fails
CH_CreateFails ==
    /\ pc = "ch_create"
    /\ DLReturn(<<"failed to create file">>, <<>>)
    /\ UNCHANGED <<entry, ctxDone, totalSize, chunkSize, chunks, remote,
                   chunkIdx, downloaded, writes, serverExact, reports, inFlight, toolVars, resumeVars, mkdirCalled, fileInfo, file, httpUsed,
                   sawCancel>>
    /\ UnchangedChunkCall /\ UnchangedManager

\* os.Create(filename) truncates the path; chunks := calculateChunks(...)
CH_Create ==
    /\ pc = "ch_create"
    /\ file' = FileOf(<<>>)
    /\ chunks' = calculateChunks(totalSize, chunkSize)
    /\ downloaded' = 0
    /\ chunkIdx' = 1
    /\ pc' = "ch_loop"
    /\ UNCHANGED <<entry, ctxDone, totalSize, chunkSize, remote, writes,
                   serverExact, reports, inFlight, toolVars, resumeVars, mkdirCalled, fileInfo, httpUsed, dlErr, errRange, sawCancel>>
    /\ UnchangedChunkCall /\ UnchangedManager

\* for _, chunk := range chunks: the range is used up, return nil
CH_Finished ==
    /\ pc = "ch_loop"
    /\ chunkIdx > Len(chunks)
    /\ DLReturn(NilErr, <<>>)
    /\ UNCHANGED <<entry, ctxDone, totalSize, chunkSize, chunks, remote,
                   chunkIdx, downloaded, writes, serverExact, reports, inFlight, toolVars, resumeVars, mkdirCalled, fileInfo, file, httpUsed,
                   sawCancel>>
    /\ UnchangedChunkCall /\ UnchangedManager

\* select { case <-ctx.Done(): return ctx.Err(); default: }
CH_Cancelled ==
    /\ pc = "ch_loop"
    /\ chunkIdx <= Len(chunks)
    /\ ctxDone
    /\ DLReturn(CtxErr, <<>>)
    /\ UNCHANGED <<entry, ctxDone, totalSize, chunkSize, chunks, remote,
                   chunkIdx, downloaded, writes, serverExact, reports, inFlight, toolVars, resumeVars, mkdirCalled, fileInfo, file, httpUsed,
                   sawCancel>>
    /\ UnchangedChunkCall /\ UnchangedManager

\* data, err := h.DownloadChunk(ctx, urlStr, chunk, options)
CH_Fetch ==
    /\ pc = "ch_loop"
    /\ chunkIdx <= Len(chunks)
    /\ ~ctxDone
    /\ EnterDownloadChunk(chunks[chunkIdx], dcOptions)
    /\ UNCHANGED <<fetched, entry, ctxDone, totalSize, chunkSize, chunks, remote,
                   chunkIdx, downloaded, writes, serverExact, reports, toolVars, resumeVars, mkdirCalled, fileInfo, file, httpUsed,
                   dlErr, errRange, sawCancel>>
    /\ UnchangedManager

CH_FetchFailedGoesOn ==
    /\ entry # "chunk"
    /\ pc = "dc_ret"
    /\ dcRet.err # NilErr
    /\ chunkIdx' = chunkIdx + 1
    /\ pc' = "ch_loop"
    /\ UNCHANGED <<entry, ctxDone, totalSize, chunkSize, chunks, remote,
                   downloaded, writes, serverExact, reports, inFlight, toolVars, resumeVars, mkdirCalled, fileInfo, file, httpUsed,
                   dlErr, errRange, sawCancel>>
    /\ LeaveDownloadChunk /\ UnchangedManager

\* DownloadChunk returned an error: it is wrapped with the chunk's range
CH_FetchFailed ==
    /\ entry # "chunk"
    /\ pc = "dc_ret"
    /\ dcRet.err # NilErr
    /\ DLReturn(Wrap("failed to download chunk", dcRet.err),
                <<chunk.Start, chunk.End>>)
    /\ UNCHANGED <<entry, ctxDone, totalSize, chunkSize, chunks, remote,
                   chunkIdx, downloaded, writes, serverExact, reports, inFlight, toolVars, resumeVars, mkdirCalled, fileInfo, file, httpUsed,
                   sawCancel>>
    /\ LeaveDownloadChunk /\ UnchangedManager

\* file.WriteAt fails after writing fewer bytes than it was given
CH_WriteFails ==
    /\ entry # "chunk"
    /\ pc = "dc_ret"
    /\ dcRet.err = NilErr
    /\ \E k \in 0..(Len(dcRet.data) - 1) :
          file' = IF k = 0 THEN file
                  ELSE WriteAt(file, SubSeq(dcRet.data, 1, k),
                               writeOffset(chunk))
    /\ DLReturn(<<"failed to write chunk to file">>, <<>>)
    /\ UNCHANGED <<entry, ctxDone, totalSize, chunkSize, chunks, remote,
                   chunkIdx, downloaded, writes, serverExact, reports, inFlight, toolVars, resumeVars, mkdirCalled, fileInfo, httpUsed, sawCancel>>
    /\ LeaveDownloadChunk /\ UnchangedManager

\* a count of chunks in place of a count of bytes
progressedByOne(n, c) == n + 1

\* downloaded += chunk.Size
progressed(n, c) == n + c.Size

\* file.WriteAt(data, chunk.Start); downloaded += chunk.Size; ProgressFunc is
\* called with the new count when the options carry one; next chunk
CH_Write ==
    /\ entry # "chunk"
    /\ pc = "dc_ret"
    /\ dcRet.err = NilErr
    /\ file' = WriteAt(file, dcRet.data, writeOffset(chunk))
    /\ writes' = Append(writes, <<writeOffset(chunk), Len(dcRet.data)>>)
    /\ downloaded' = progressed(downloaded, chunk)
    /\ reports' = IF ~dcOptions.nil /\ dcOptions.ProgressFunc
                  THEN Append(reports, <<progressed(downloaded, chunk), totalSize>>)
                  ELSE reports
    /\ chunkIdx' = chunkIdx + 1
    /\ pc' = "ch_loop"
    /\ UNCHANGED <<entry, ctxDone, totalSize, chunkSize, chunks, remote,
                   serverExact, inFlight, toolVars, resumeVars, mkdirCalled, fileInfo, httpUsed, dlErr, errRange, sawCancel>>
    /\ LeaveDownloadChunk /\ UnchangedManager

NextDownloadChunked ==
    \/ CH_CreateFails
    \/ CH_Create
    \/ CH_Finished
    \/ CH_Cancelled
    \/ CH_Fetch
    \/ CH_FetchFailed
    \/ CH_WriteFails
    \/ CH_Write

(***************************************************************************)
(* The caller cancels the context while the call is running.               *)
(***************************************************************************)
Returned ==
    \/ entry = "plan"
    \/ entry = "chunk" /\ pc = "dc_ret"
    \/ entry = "chunked" /\ pc = "tf_ret"
    \/ entry = "manager" /\ pc = "done"

\* a chunk has completed once DownloadChunk has returned its bytes; a
\* single-stream transfer, once DownloadToFile has returned nil
ChunkCompleted ==
    \/ fetched > 0
    \/ pc = "tf_ret" /\ dlErr = NilErr
    \/ pc \in {"m_size", "m_hash"}

Cancel ==
    /\ ~Returned
    /\ ~ctxDone
    /\ ctxDone' = TRUE
    /\ sawCancel' = ~ChunkCompleted
    /\ UNCHANGED <<pc, chunk, dcOptions, attempt, delays, timerFired, lastErr,
                   restyTry, wire, resp, dcRet, fetched, serverExact, reports, inFlight, toolVars, resumeVars, mkdirCalled, fileInfo, httpUsed>>
    /\ UnchangedOuter

(***************************************************************************)
(* ResumeManager: strings, times, ResumeData and its JSON encoding.        *)
(***************************************************************************)
\* A Go string is a sequence of bytes.  The model's alphabet has the letters
\* and punctuation of the URLs and paths below, the double quote, and one
\* byte that is not valid UTF-8; the replacement rune U+FFFD is what the json
\* package puts in its place.
InvalidByte == "\\xff"
ReplacementRune == "\\ufffd"

Alnum == {"h", "t", "p", "s", "e", "x", "a", "m", "l", "c", "o", "b", "q", "1"}

\* "https://example.com/": 20 bytes
Base == <<"h", "t", "t", "p", "s", ":", "/", "/", "e", "x", "a", "m", "p", "l",
          "e", ".", "c", "o", "m", "/">>

UrlA == Base \o <<"a">>
UrlB == Base \o <<"b">>
UrlC == <<"c", InvalidByte>>
URLs == {UrlA, UrlB, UrlC}

PathP == <<"/", "p">>
PathQ == <<"/", "q", "\"">>
PathX == <<"/", InvalidByte>>
Paths == {PathP, PathQ, PathX}

Hashes == {<<>>, <<"a", "1">>}

\* a time.Time: its instant, and whether it carries a monotonic clock reading
\* (time.Now() does, a decoded time does not)
TimeAt(t, mono) == [wall |-> t, mono |-> mono]
ZeroTime == TimeAt(0, FALSE)

\* t.After(u)
After(t, u) == t.wall > u.wall

\* t.Equal(u)
SameInstant(t, u) == t.wall = u.wall

ResumeDataOf(url, path, total, down, csize, modified, hash) ==
    [URL |-> url, FilePath |-> path, TotalSize |-> total, Downloaded |-> down,
     ChunkSize |-> csize, LastModified |-> modified, Hash |-> hash]

\* var progress interfaces.ResumeData
ZeroResumeData == ResumeDataOf(<<>>, <<>>, 0, 0, 0, ZeroTime, <<>>)

\* a *ResumeData
NilProgress == [nil |-> TRUE, data |-> ZeroResumeData]
Ptr(r) == [nil |-> FALSE, data |-> r]

\* encoding/json writes a string rune by rune: the double quote is escaped
\* and a byte that is not valid UTF-8 is written as \ufffd
Escaped == {"\""}

encodeRuneUnescaped(c) ==
    IF c = InvalidByte THEN <<"esc", ReplacementRune>> ELSE <<"lit", c>>

encodeRune(c) ==
    IF c = InvalidByte THEN <<"esc", ReplacementRune>>
    ELSE IF c \in Escaped THEN <<"esc", c>>
    ELSE <<"lit", c>>

decodeRune(tok) == tok[2]

encodeString(s) == [i \in 1..Len(s) |-> encodeRune(s[i])]
decodeString(v) == [i \in 1..Len(v) |-> decodeRune(v[i])]

\* an int64 is written in decimal
DigitChars == <<"0", "1", "2", "3", "4", "5", "6", "7", "8", "9">>

DigitValue(c) == (CHOOSE d \in 1..10 : DigitChars[d] = c) - 1

RECURSIVE encodeDigits(_)
encodeDigits(n) ==
    IF n < 10 THEN <<<<"lit", DigitChars[n + 1]>>>>
    ELSE encodeDigits(n \div 10) \o <<<<"lit", DigitChars[(n % 10) + 1]>>>>

encodeInt(n) ==
    IF n < 0 THEN <<<<"lit", "-">>>> \o encodeDigits(0 - n) ELSE encodeDigits(n)

RECURSIVE decodeDigits(_, _)
decodeDigits(v, acc) ==
    IF v = <<>> THEN acc
    ELSE decodeDigits(Tail(v), acc * 10 + DigitValue(Head(v)[2]))

decodeInt(v) ==
    IF v = <<>> THEN 0
    ELSE IF Head(v)[2] = "-" THEN 0 - decodeDigits(Tail(v), 0)
    ELSE decodeDigits(v, 0)

\* Time.MarshalJSON writes the instant as RFC 3339 text, without the
\* monotonic clock reading, and fails for a year outside 0..9999; the model's
\* instants MaxTime + 1 and later stand for the year 10000
BeyondYear9999 == MaxTime + 1

timeMarshals(t) == t.wall >= 0 /\ t.wall < BeyondYear9999

encodeTime(t) == encodeInt(t.wall)
decodeTime(v) == TimeAt(decodeInt(v), FALSE)

\* the text of a resume file is a sequence of tokens: "{", one token for each
\* "key": value line, "}"
Tok(k, v) == [k |-> k, v |-> v]

FieldKeys == {"url", "file_path", "total_size", "downloaded", "chunk_size",
              "last_modified", "hash"}

\* Hash string `json:"hash,omitempty"`
hashLine(h) == IF h = <<>> THEN <<>> ELSE <<Tok("hash", encodeString(h))>>

\* json.MarshalIndent(progress, "", "  "): the error and the text
MarshalIndent(r) ==
    IF ~timeMarshals(r.LastModified)
    THEN [err |-> <<"Time.MarshalJSON: year outside of range [0,9999]">>,
          text |-> <<>>]
    ELSE [err |-> NilErr,
          text |-> <<Tok("{", <<>>),
                     Tok("url", encodeString(r.URL)),
                     Tok("file_path", encodeString(r.FilePath)),
                     Tok("total_size", encodeInt(r.TotalSize)),
                     Tok("downloaded", encodeInt(r.Downloaded)),
                     Tok("chunk_size", encodeInt(r.ChunkSize)),
                     Tok("last_modified", encodeTime(r.LastModified))>>
                   \o hashLine(r.Hash)
                   \o <<Tok("}", <<>>)>>]

\* text that is not JSON at all
Garbage == <<Tok("garbage", <<>>)>>

\* a JSON object that some other program wrote: none of its keys is a field
\* of ResumeData
Foreign == <<Tok("{", <<>>), Tok("x", encodeInt(1)), Tok("}", <<>>)>>

\* the text parses: it opens and closes and no string holds an unescaped
\* quote; a key that is no field of ResumeData is skipped, not an error
WellFormed(text) ==
    /\ Len(text) >= 2
    /\ text[1].k = "{" /\ text[Len(text)].k = "}"
    /\ \A i \in 2..(Len(text) - 1) :
          \A j \in 1..Len(text[i].v) :
             ~(text[i].v[j][1] = "lit" /\ text[i].v[j][2] \in Escaped)

\* the value written for a key, empty when the key is absent
FieldOf(text, key) ==
    IF \E i \in 1..Len(text) : text[i].k = key
    THEN text[CHOOSE i \in 1..Len(text) : text[i].k = key].v
    ELSE <<>>

\* json.Unmarshal(data, &progress): the error and the decoded record
Unmarshal(text) ==
    IF ~WellFormed(text)
    THEN [err |-> <<"failed to unmarshal resume data">>, data |-> ZeroResumeData]
    ELSE [err |-> NilErr,
          data |-> ResumeDataOf(decodeString(FieldOf(text, "url")),
                                decodeString(FieldOf(text, "file_path")),
                                decodeInt(FieldOf(text, "total_size")),
                                decodeInt(FieldOf(text, "downloaded")),
                                decodeInt(FieldOf(text, "chunk_size")),
                                decodeTime(FieldOf(text, "last_modified")),
                                decodeString(FieldOf(text, "hash")))]

(***************************************************************************)
(* ResumeManager: the resume directory, the output files, and the          *)
(* operations as functions of what is on disk.                             *)
(***************************************************************************)
FilenameRunes == 20

Min(a, b) == IF a < b THEN a ELSE b

\* the first 20 bytes of the URL, letters and digits kept, "_" for the rest
\* (an invalid byte ranges as U+FFFD, which is neither)
getResumeFilename(url) ==
    <<"resume_">>
        \o [i \in 1..Min(Len(url), FilenameRunes) |->
               IF url[i] \in Alnum THEN url[i] ELSE "_"]
        \o <<".json">>

Filenames == {getResumeFilename(u) : u \in URLs}

\* a file of the resume directory: absent, or its text; `readable` is false
\* when the process may neither read nor write it
NoResumeFile == [exists |-> FALSE, text |-> <<>>, readable |-> TRUE]
ResumeFile(text) == [exists |-> TRUE, text |-> text, readable |-> TRUE]
LockedResumeFile == [exists |-> TRUE, text |-> <<>>, readable |-> FALSE]

\* what os.Stat(outputPath) gives: no such file, an error of another kind,
\* or the file's size and modification time
StatAbsent == [state |-> "absent", size |-> 0, mtime |-> ZeroTime]
StatDenied == [state |-> "denied", size |-> 0, mtime |-> ZeroTime]
StatFile(size, mtime) == [state |-> "file", size |-> size, mtime |-> mtime]

\* what LoadProgress(url) returns with `files` in the resume directory
LoadProgress(files, url) ==
    LET f == files[getResumeFilename(url)] IN
    IF ~f.exists
    THEN [out |-> NilProgress, err |-> NilErr]
    ELSE IF ~f.readable
    THEN [out |-> NilProgress,
          err |-> Wrap("failed to read resume file", <<"permission denied">>)]
    ELSE IF Unmarshal(f.text).err # NilErr
    THEN [out |-> NilProgress, err |-> Unmarshal(f.text).err]
    ELSE [out |-> Ptr(Unmarshal(f.text).data), err |-> NilErr]

NotResumable(err) == [resumable |-> FALSE, out |-> NilProgress, err |-> err]

sizeAgreesAtMost(size, down) == size <= down

\* fileInfo.Size() != progress.Downloaded  =>  not resumable
sizeAgrees(size, down) == size = down

\* what IsResumable(url, outputPath) returns
IsResumable(files, stats, url, outputPath) ==
    LET loaded == LoadProgress(files, url) IN
    IF loaded.err # NilErr THEN NotResumable(loaded.err)
    ELSE IF loaded.out.nil THEN NotResumable(NilErr)
    ELSE IF loaded.out.data.FilePath # outputPath THEN NotResumable(NilErr)
    ELSE IF stats[outputPath].state = "absent" THEN NotResumable(NilErr)
    ELSE IF stats[outputPath].state = "denied"
    THEN NotResumable(Wrap("failed to stat output file", <<"permission denied">>))
    ELSE IF ~sizeAgrees(stats[outputPath].size, loaded.out.data.Downloaded)
    THEN NotResumable(NilErr)
    ELSE IF After(stats[outputPath].mtime, loaded.out.data.LastModified)
    THEN NotResumable(NilErr)
    ELSE [resumable |-> TRUE, out |-> loaded.out, err |-> NilErr]

(***************************************************************************)
(* ResumeManager: the calls.  SaveProgress writes with os.WriteFile, which *)
(* truncates the file and then writes the text; the other calls are one    *)
(* step each and may run while a SaveProgress is writing.                  *)
(***************************************************************************)
NoCall == [op |-> "none", url |-> <<>>, path |-> <<>>, err |-> NilErr,
           resumable |-> FALSE, out |-> NilProgress]

Call(op, url, path, err, resumable, out) ==
    [op |-> op, url |-> url, path |-> path, err |-> err,
     resumable |-> resumable, out |-> out]

NoSaver == [state |-> "idle", url |-> <<>>, text |-> <<>>, written |-> 0,
            before |-> NoResumeFile, unlinked |-> FALSE]

IdleResume ==
    /\ progress = ZeroResumeData
    /\ store = [n \in Filenames |-> NoResumeFile]
    /\ outputs = [p \in Paths |-> StatAbsent]
    /\ saver = NoSaver
    /\ rmLast = NoCall /\ rmPrev = NoCall /\ rmCalls = 0

\* a call returns
Returns(call) ==
    /\ rmPrev' = rmLast
    /\ rmLast' = call

CanCall == entry = "resume" /\ rmCalls < MaxResumeCalls

\* SaveProgress up to the opening of the file: json.MarshalIndent, then
\* os.WriteFile opens the file with O_CREATE|O_TRUNC
RM_SaveBegin ==
    /\ CanCall
    /\ saver.state # "writing"
    /\ rmCalls' = rmCalls + 1
    /\ \E url \in URLs :
          LET name == getResumeFilename(url)
              m == MarshalIndent(progress) IN
          IF m.err # NilErr
          THEN /\ Returns(Call("save", url, <<>>,
                               Wrap("failed to marshal resume data", m.err),
                               FALSE, NilProgress))
               /\ UNCHANGED <<store, saver>>
          ELSE IF store[name].exists /\ ~store[name].readable
          THEN /\ Returns(Call("save", url, <<>>,
                               Wrap("failed to write resume file",
                                    <<"permission denied">>),
                               FALSE, NilProgress))
               /\ UNCHANGED <<store, saver>>
          ELSE /\ store' = [store EXCEPT ![name] = ResumeFile(<<>>)]
               /\ saver' = [state |-> "writing", url |-> url, text |-> m.text,
                            written |-> 0, before |-> store[name],
                            unlinked |-> FALSE]
               /\ UNCHANGED <<rmLast, rmPrev>>
    /\ UNCHANGED <<progress, outputs>>
    /\ UNCHANGED <<downloadVars, toolVars>>

\* the text reaches the file in one write or in two
RM_SaveWrite ==
    /\ entry = "resume"
    /\ saver.state = "writing"
    /\ saver.written < Len(saver.text)
    /\ \E k \in {Len(saver.text) \div 2, Len(saver.text)} :
          /\ k > saver.written
          /\ saver' = [saver EXCEPT !.written = k]
          /\ store' = IF saver.unlinked THEN store
                      ELSE [store EXCEPT ![getResumeFilename(saver.url)] =
                                ResumeFile(SubSeq(saver.text, 1, k))]
    /\ UNCHANGED <<progress, outputs, rmLast, rmPrev, rmCalls>>
    /\ UNCHANGED <<downloadVars, toolVars>>

\* the write fails (the disk is full): SaveProgress returns the error
RM_SaveFails ==
    /\ entry = "resume"
    /\ saver.state = "writing"
    /\ saver.written < Len(saver.text)
    /\ saver' = [saver EXCEPT !.state = "failed"]
    /\ Returns(Call("save", saver.url, <<>>,
                    Wrap("failed to write resume file", <<"no space left">>),
                    FALSE, NilProgress))
    /\ UNCHANGED <<progress, store, outputs, rmCalls>>
    /\ UNCHANGED <<downloadVars, toolVars>>

\* the process is stopped while it writes; nothing returns
RM_SaveInterrupted ==
    /\ entry = "resume"
    /\ saver.state = "writing"
    /\ saver.written < Len(saver.text)
    /\ saver' = [saver EXCEPT !.state = "interrupted"]
    /\ UNCHANGED <<progress, store, outputs, rmLast, rmPrev, rmCalls>>
    /\ UNCHANGED <<downloadVars, toolVars>>

\* all of the text is written: SaveProgress returns nil
RM_SaveReturn ==
    /\ entry = "resume"
    /\ saver.state = "writing"
    /\ saver.written = Len(saver.text)
    /\ saver' = [saver EXCEPT !.state = "done"]
    /\ Returns(Call("save", saver.url, <<>>, NilErr, FALSE, NilProgress))
    /\ UNCHANGED <<progress, store, outputs, rmCalls>>
    /\ UNCHANGED <<downloadVars, toolVars>>

RM_LoadProgress ==
    /\ CanCall
    /\ rmCalls' = rmCalls + 1
    /\ \E url \in URLs :
          Returns(Call("load", url, <<>>, LoadProgress(store, url).err, FALSE,
                       LoadProgress(store, url).out))
    /\ UNCHANGED <<progress, store, outputs, saver>>
    /\ UNCHANGED <<downloadVars, toolVars>>

\* what os.Remove returns for a file that is not there, and for one the
\* process may not remove
NotExistErr == <<"no such file or directory">>
PermissionErr == <<"permission denied">>

clearFailsWhenAbsent(err) == err # NilErr

\* err != nil && !os.IsNotExist(err)
clearFails(err) == err # NilErr /\ err # NotExistErr

\* what ClearProgress returns when os.Remove returned err
clearReturns(err) ==
    IF clearFails(err) THEN Wrap("failed to remove resume file", err)
    ELSE NilErr

\* ClearProgress: os.Remove(filepath), then the error test.  A file removed
\* while a SaveProgress writes it stays removed: the writer's text goes to the
\* unlinked file.
RM_ClearProgress ==
    /\ CanCall
    /\ rmCalls' = rmCalls + 1
    /\ \E url \in URLs :
          LET name == getResumeFilename(url) IN
          \/ /\ ~store[name].exists
             /\ Returns(Call("clear", url, <<>>, clearReturns(NotExistErr),
                             FALSE, NilProgress))
             /\ UNCHANGED <<store, saver>>
          \/ /\ store[name].exists
             /\ store' = [store EXCEPT ![name] = NoResumeFile]
             /\ saver' = IF saver.state = "writing"
                            /\ getResumeFilename(saver.url) = name
                         THEN [saver EXCEPT !.unlinked = TRUE]
                         ELSE saver
             /\ Returns(Call("clear", url, <<>>, clearReturns(NilErr),
                             FALSE, NilProgress))
          \/ /\ store[name].exists
             /\ Returns(Call("clear", url, <<>>, clearReturns(PermissionErr),
                             FALSE, NilProgress))
             /\ UNCHANGED <<store, saver>>
    /\ UNCHANGED <<progress, outputs>>
    /\ UNCHANGED <<downloadVars, toolVars>>

RM_IsResumable ==
    /\ CanCall
    /\ rmCalls' = rmCalls + 1
    /\ \E url \in URLs, outputPath \in Paths :
          LET r == IsResumable(store, outputs, url, outputPath) IN
          Returns(Call("resumable", url, outputPath, r.err, r.resumable, r.out))
    /\ UNCHANGED <<progress, store, outputs, saver>>
    /\ UNCHANGED <<downloadVars, toolVars>>

NextResume ==
    \/ RM_SaveBegin
    \/ RM_SaveWrite
    \/ RM_SaveFails
    \/ RM_SaveInterrupted
    \/ RM_SaveReturn
    \/ RM_LoadProgress
    \/ RM_ClearProgress
    \/ RM_IsResumable

(***************************************************************************)
(* Initial values of the variables a specification does not use.           *)
(***************************************************************************)
NoChunk == [Start |-> 0, End |-> 0, Size |-> 0]
\* a hash string: the empty string, or the hex digits of a digest in
\* lower or upper case; a digest is identified by the bytes it was taken of
EmptyStr == [set |-> FALSE, hex |-> <<>>, upper |-> FALSE]
NoManager == [Resume |-> FALSE, VerifyHash |-> FALSE, ChunkSize |-> 0,
              MaxConnections |-> 0, reqHash |-> EmptyStr]
NoResult == [ok |-> FALSE, err |-> <<>>, Size |-> 0, Speed |-> 0,
             Hash |-> EmptyStr, Resumed |-> FALSE, short |-> FALSE]

IdleChunk ==
    /\ chunk = NoChunk /\ dcOptions = NilOptions /\ attempt = 0 /\ delays = 0
    /\ timerFired = FALSE /\ lastErr = NilErr /\ restyTry = 0 /\ wire = 0
    /\ resp = NoResp /\ dcRet = NoRet /\ fetched = 0 /\ inFlight = 0

IdleChunked ==
    /\ chunks = <<>> /\ chunkIdx = 0 /\ downloaded = 0 /\ writes = <<>>
    /\ reports = <<>>
    /\ dlErr = NilErr /\ errRange = <<>>

\* FileInfo before the probe; Size stays 0 without a Content-Length header
NoFileInfo == [probed |-> FALSE, Size |-> 0, SupportsRangeRequests |-> FALSE]

IdleTransfer == fileInfo = NoFileInfo /\ mkdirCalled = FALSE

IdleManager ==
    /\ mgr = NoManager /\ probed = 0 /\ result = NoResult

\* the tools no call has been made on
NoTracker == [state |-> "none"]
NoCli == [state |-> "none"]
NoOutPath == [state |-> "none"]
NoServices == [state |-> "none"]
NoCleanup == [state |-> "none"]
NoCalls == [state |-> "none"]

IdleTools ==
    /\ tracker = NoTracker /\ cli = NoCli /\ outPath = NoOutPath
    /\ services = NoServices /\ cleanup = NoCleanup /\ tcalls = NoCalls

(***************************************************************************)
(* SpecPlan: calculateChunks on every input within the bounds.             *)
(***************************************************************************)
InitPlan ==
    /\ entry = "plan"
    /\ pc = "plan"
    /\ totalSize \in -1..MaxPlanTotal
    /\ chunkSize \in 1..MaxPlanChunk
    /\ remote = 0 /\ ctxDone = FALSE /\ sawCancel = FALSE /\ httpUsed = FALSE
    /\ serverExact = FALSE
    /\ file = NoFile
    /\ IdleChunk /\ IdleChunked /\ IdleManager /\ IdleTransfer /\ IdleResume /\ IdleTools

Plan ==
    /\ pc = "plan"
    /\ chunks' = calculateChunks(totalSize, chunkSize)
    /\ pc' = "planned"
    /\ UNCHANGED <<entry, ctxDone, totalSize, chunkSize, remote, chunk,
                   dcOptions, attempt, delays, timerFired, lastErr, restyTry,
                   wire, resp, dcRet, fetched, chunkIdx, downloaded, writes,
                   serverExact, reports, inFlight, toolVars, resumeVars, mkdirCalled, fileInfo, file, httpUsed, dlErr, errRange, mgr, probed, sawCancel, result>>

NextPlan == Plan

SpecPlan == InitPlan /\ [][NextPlan]_vars

(***************************************************************************)
(* SpecChunk: one call of DownloadChunk for a chunk of a plan, with nil    *)
(* options or options carrying MaxRetries and RetryDelay.                  *)
(***************************************************************************)
OptionsSet ==
    {NilOptions}
    \cup [nil : {FALSE}, MaxRetries : -1..MaxOptRetries,
          RetryDelay : {0}, ProgressFunc : {FALSE}]
    \cup [nil : {FALSE}, MaxRetries : 0..1,
          RetryDelay : {Nanosecond}, ProgressFunc : {FALSE}]

InitChunk ==
    /\ entry = "chunk"
    /\ pc = "dc_loop"
    /\ remote \in 1..MaxTotal
    /\ totalSize = remote
    /\ chunkSize \in 1..MaxChunk
    /\ \E i \in 1..Len(calculateChunks(totalSize, chunkSize)) :
          chunk = calculateChunks(totalSize, chunkSize)[i]
    /\ dcOptions \in OptionsSet
    /\ serverExact = FALSE
    /\ attempt = 0 /\ delays = 0 /\ timerFired = FALSE /\ lastErr = NilErr
    /\ restyTry = 0 /\ wire = 0 /\ resp = NoResp /\ dcRet = NoRet
    /\ fetched = 0 /\ inFlight = 1
    /\ ctxDone = FALSE /\ sawCancel = FALSE /\ httpUsed = FALSE
    /\ file = NoFile
    /\ IdleChunked /\ IdleManager /\ IdleTransfer /\ IdleResume /\ IdleTools

NextChunk == NextDownloadChunk \/ Cancel

SpecChunk == InitChunk /\ [][NextChunk]_vars

(***************************************************************************)
(* SpecChunked: one call of downloadChunked(ctx, url, filename, totalSize, *)
(* chunkSize, options) on a path that is absent or holds stale content.    *)
(***************************************************************************)
InitChunked ==
    /\ entry = "chunked"
    /\ pc = "ch_create"
    /\ remote \in 1..MaxTotal
    /\ totalSize = remote
    /\ chunkSize \in (1..MaxChunk) \cup {DefaultChunkSize}
    /\ file \in {NoFile, FileOf(Garbled(totalSize + 1))}
    /\ serverExact \in BOOLEAN
    /\ dcOptions \in {ManagerDownloadOptions,
                      [ManagerDownloadOptions EXCEPT !.ProgressFunc = FALSE]}
    /\ chunk = NoChunk /\ attempt = 0 /\ delays = 0 /\ timerFired = FALSE
    /\ lastErr = NilErr /\ restyTry = 0 /\ wire = 0 /\ resp = NoResp
    /\ dcRet = NoRet /\ fetched = 0 /\ inFlight = 0
    /\ ctxDone = FALSE /\ sawCancel = FALSE /\ httpUsed = FALSE
    /\ IdleChunked /\ IdleManager /\ IdleTransfer /\ IdleResume /\ IdleTools

NextChunked == NextDownloadChunk \/ NextDownloadChunked \/ Cancel

SpecChunked == InitChunked /\ [][NextChunked]_vars

(***************************************************************************)
(* HTTPClient.DownloadToFile and HTTPClient.downloadSimple                 *)
(***************************************************************************)
UnchangedTransfer ==
    UNCHANGED <<chunks, chunkIdx, downloaded, writes, fetched, chunk, attempt,
                delays, timerFired, lastErr, restyTry, wire, resp, dcRet>>

\* h.GetFileInfo, req.Head(urlStr): refused at once when the context is done,
\* otherwise the request goes out
TF_HeadSend ==
    /\ pc = "tf_head"
    /\ IF ctxDone
       THEN /\ DLReturn(Wrap("failed to get file info",
                             Wrap("failed to get file info", CtxErr)), <<>>)
            /\ UNCHANGED httpUsed
       ELSE /\ httpUsed' = TRUE
            /\ pc' = "tf_head_flight"
            /\ UNCHANGED <<dlErr, errRange>>
    /\ UNCHANGED <<entry, ctxDone, totalSize, chunkSize, remote, dcOptions,
                   serverExact, reports, inFlight, toolVars, resumeVars, mkdirCalled, fileInfo, file, sawCancel>>
    /\ UnchangedTransfer /\ UnchangedManager

\* h.GetFileInfo fails: the HEAD request in flight ends with an error (the
\* context's once the context is done, else the connection's), or its
\* response has a status that is neither 200 nor 206
TF_HeadFails ==
    /\ pc = "tf_head_flight"
    /\ \E cause \in IF ctxDone
                     THEN {Wrap("failed to get file info", CtxErr)}
                     ELSE {Wrap("failed to get file info", ConnErr),
                           <<"unexpected status code">>} :
          DLReturn(Wrap("failed to get file info", cause), <<>>)
    /\ UNCHANGED <<entry, ctxDone, totalSize, chunkSize, remote, dcOptions,
                   serverExact, reports, inFlight, toolVars, resumeVars, mkdirCalled, fileInfo, file, httpUsed, sawCancel>>
    /\ UnchangedTransfer /\ UnchangedManager

\* the FileInfo a HEAD response gives: Size 0 without a Content-Length header,
\* else the resource's size; with or without "Accept-Ranges: bytes"
HeadInfos ==
    {[probed |-> TRUE, Size |-> size, SupportsRangeRequests |-> ranges] :
        size \in {0, remote}, ranges \in BOOLEAN}

useChunkedWithoutRanges(info) == info.Size # 0

\* neither `fileInfo.Size == 0` nor `!fileInfo.SupportsRangeRequests`
useChunked(info) == info.Size # 0 /\ info.SupportsRangeRequests

\* fileInfo.Size == 0 (no Content-Length) or no "Accept-Ranges: bytes":
\* downloadSimple
TF_HeadSimple ==
    /\ pc = "tf_head_flight"
    /\ ~ctxDone
    /\ \E info \in HeadInfos :
          /\ ~useChunked(info)
          /\ fileInfo' = info
    /\ pc' = "sm_create"
    /\ UNCHANGED <<entry, ctxDone, totalSize, chunkSize, remote, dcOptions,
                   serverExact, reports, inFlight, toolVars, resumeVars, mkdirCalled, file, httpUsed, dlErr, errRange, sawCancel>>
    /\ UnchangedTransfer /\ UnchangedManager

\* chunkSize := 1MB; if options.ChunkSize > 0 { chunkSize = options.ChunkSize }
chunkSizeFor(optChunkSize) ==
    IF optChunkSize > 0 THEN optChunkSize ELSE DefaultChunkSize

\* otherwise downloadChunked with fileInfo.Size and the manager's ChunkSize
\* option
TF_HeadChunked ==
    /\ pc = "tf_head_flight"
    /\ ~ctxDone
    /\ \E info \in HeadInfos :
          /\ useChunked(info)
          /\ fileInfo' = info
          /\ totalSize' = info.Size
    /\ \E cs \in {0, MaxChunk} :
          /\ mgr' = [mgr EXCEPT !.ChunkSize = cs]
          /\ chunkSize' = chunkSizeFor(cs)
    /\ dcOptions' = ManagerDownloadOptions
    /\ pc' = "ch_create"
    /\ UNCHANGED <<entry, ctxDone, remote, serverExact, reports, inFlight, toolVars, resumeVars, mkdirCalled, file, httpUsed, dlErr, errRange,
                   sawCancel, probed, result>>
    /\ UnchangedTransfer

\* downloadSimple: os.Create(filename) fails
SM_CreateFails ==
    /\ pc = "sm_create"
    /\ DLReturn(<<"failed to create file">>, <<>>)
    /\ UNCHANGED <<entry, ctxDone, totalSize, chunkSize, remote, dcOptions,
                   serverExact, reports, inFlight, toolVars, resumeVars, mkdirCalled, fileInfo, file, httpUsed, sawCancel>>
    /\ UnchangedTransfer /\ UnchangedManager

\* downloadSimple: os.Create(filename) truncates the path
SM_Create ==
    /\ pc = "sm_create"
    /\ file' = FileOf(<<>>)
    /\ pc' = "sm_get"
    /\ UNCHANGED <<entry, ctxDone, totalSize, chunkSize, remote, dcOptions,
                   serverExact, reports, inFlight, toolVars, resumeVars, mkdirCalled, fileInfo, httpUsed, dlErr, errRange, sawCancel>>
    /\ UnchangedTransfer /\ UnchangedManager

\* req.SetOutput(filename).Get(urlStr): refused at once when the context is
\* done, otherwise the request goes out
SM_Send ==
    /\ pc = "sm_get"
    /\ IF ctxDone
       THEN DLReturn(Wrap("download failed", CtxErr), <<>>) /\ UNCHANGED httpUsed
       ELSE /\ httpUsed' = TRUE
            /\ pc' = "sm_flight"
            /\ UNCHANGED <<dlErr, errRange>>
    /\ UNCHANGED <<entry, ctxDone, totalSize, chunkSize, remote, dcOptions,
                   serverExact, reports, inFlight, toolVars, resumeVars, mkdirCalled, fileInfo, file, sawCancel>>
    /\ UnchangedTransfer /\ UnchangedManager

\* the bodies a server can send for the whole resource: all of it, or all but
\* its last byte
SimpleBodies == {Remote(remote), SubSeq(Remote(remote), 1, remote - 1)}

\* the GET ends with an error (the connection breaks, or the context is
\* cancelled); what was received so far is in the file
SM_GetFails ==
    /\ pc = "sm_flight"
    /\ \E k \in 0..remote : file' = FileOf(SubSeq(Remote(remote), 1, k))
    /\ DLReturn(Wrap("download failed", IF ctxDone THEN CtxErr ELSE ConnErr),
                <<>>)
    /\ UNCHANGED <<entry, ctxDone, totalSize, chunkSize, remote, dcOptions,
                   serverExact, reports, inFlight, toolVars, resumeVars, mkdirCalled, fileInfo, httpUsed, sawCancel>>
    /\ UnchangedTransfer /\ UnchangedManager

\* the GET ends with a response: resty writes its body to the output file;
\* only status 200 is a success
SM_Response ==
    /\ pc = "sm_flight"
    /\ ~ctxDone
    /\ \E status \in Statuses, body \in SimpleBodies :
          /\ file' = FileOf(body)
          /\ IF status # StatusOK
             THEN DLReturn(<<"unexpected status code">>, <<>>)
             ELSE DLReturn(NilErr, <<>>)
    /\ UNCHANGED <<entry, ctxDone, totalSize, chunkSize, remote, dcOptions,
                   serverExact, reports, inFlight, toolVars, resumeVars, mkdirCalled, fileInfo, httpUsed, sawCancel>>
    /\ UnchangedTransfer /\ UnchangedManager

NextDownloadToFile ==
    \/ TF_HeadSend
    \/ TF_HeadFails
    \/ TF_HeadSimple
    \/ TF_HeadChunked
    \/ SM_CreateFails
    \/ SM_Create
    \/ SM_Send
    \/ SM_GetFails
    \/ SM_Response

(***************************************************************************)
(* HashCalculator.CalculateHash and the comparison of hash strings         *)
(***************************************************************************)
\* fmt.Sprintf("%x", hasher.Sum(nil)): lower-case hex digits of the digest
CalculateHash(f) == [set |-> TRUE, hex |-> f.data, upper |-> FALSE]

ToUpper(h) == [h EXCEPT !.upper = h.set]

hashEqualIgnored(a, b) == TRUE

\* strings.EqualFold(calculatedHash, req.VerifyHash)
hashEqual(a, b) == a.set = b.set /\ a.hex = b.hex

\* the expected hashes a request can carry: none, the resource's digest in
\* upper case, the digest of something else
ReqHashes ==
    {EmptyStr, ToUpper(CalculateHash(FileOf(Remote(remote)))),
     CalculateHash(FileOf(Garbled(1)))}

(***************************************************************************)
(* Manager.Download                                                        *)
(***************************************************************************)
UnchangedHTTP ==
    UNCHANGED <<totalSize, chunkSize, chunks, remote, chunk, dcOptions,
                attempt, delays, timerFired, lastErr, restyTry, wire, resp,
                dcRet, fetched, chunkIdx, downloaded, writes, serverExact, reports, inFlight, toolVars, resumeVars, fileInfo,
                httpUsed, dlErr, errRange>>

Fail(err) ==
    /\ result' = [NoResult EXCEPT !.err = err]
    /\ pc' = "done"

Succeed(size, speed, hash, short) ==
    /\ result' = [ok |-> TRUE, err |-> NilErr, Size |-> size, Speed |-> speed,
                  Hash |-> hash, Resumed |-> FALSE, short |-> short]
    /\ pc' = "done"

\* m.FindService(req.URL): nil when no registered service supports the URL
M_FindService ==
    /\ pc = "m_find"
    /\ \E found \in BOOLEAN :
          IF found
          THEN pc' = "m_probe" /\ UNCHANGED result
          ELSE Fail(<<"no service found for URL">>)
    /\ UNCHANGED <<mkdirCalled, entry, ctxDone, file, mgr, probed, sawCancel>>
    /\ UnchangedHTTP

\* service.GetFileInfo(ctx, req.URL): a service may or may not look at ctx
\* (dropbox.GetFileInfo does not and reports Size 0)
M_GetFileInfo ==
    /\ pc = "m_probe"
    /\ \/ \E cause \in {<<"service error">>} \cup
                       (IF ctxDone THEN {CtxErr} ELSE {}) :
             /\ Fail(Wrap("failed to get file info", cause))
             /\ UNCHANGED probed
       \/ \E size \in {0, remote, remote + 1} :
             /\ probed' = size
             /\ pc' = "m_prepare"
             /\ UNCHANGED result
    /\ UNCHANGED <<mkdirCalled, entry, ctxDone, file, mgr, sawCancel>>
    /\ UnchangedHTTP

M_PrepareDownloadCleansUp ==
    /\ pc = "m_prepare"
    /\ \/ \E cause \in {<<"service error">>} \cup
                       (IF ctxDone THEN {CtxErr} ELSE {}) :
             /\ Fail(Wrap("failed to prepare download", cause))
             /\ file' = NoFile
       \/ pc' = "m_path" /\ UNCHANGED <<result, file>>
    /\ UNCHANGED <<mkdirCalled, entry, ctxDone, mgr, probed, sawCancel>>
    /\ UnchangedHTTP

\* service.PrepareDownload(ctx, req.URL)
M_PrepareDownload ==
    /\ pc = "m_prepare"
    /\ \/ \E cause \in {<<"service error">>} \cup
                       (IF ctxDone THEN {CtxErr} ELSE {}) :
             Fail(Wrap("failed to prepare download", cause))
       \/ pc' = "m_path" /\ UNCHANGED result
    /\ UNCHANGED <<mkdirCalled, entry, ctxDone, file, mgr, probed, sawCancel>>
    /\ UnchangedHTTP

\* m.determineOutputPath(req, fileInfo.Filename): os.MkdirAll may fail
M_DetermineOutputPath ==
    /\ pc = "m_path"
    /\ mkdirCalled' = TRUE
    /\ \/ Fail(Wrap("failed to determine output path",
                    <<"failed to create output directory">>))
       \/ pc' = "m_existing" /\ UNCHANGED result
    /\ UNCHANGED <<entry, ctxDone, file, mgr, probed, sawCancel>>
    /\ UnchangedHTTP

\* m.checkExistingFile(outputPath, fileInfo.Size): the second return value
checkExistingFile(f, expectedSize) ==
    f.exists /\ Len(f.data) = expectedSize

skipExistingAlways(resume, f, expectedSize) ==
    checkExistingFile(f, expectedSize)

\* if m.options.Resume { if _, exists := m.checkExistingFile(...); exists {
skipExisting(resume, f, expectedSize) ==
    resume /\ checkExistingFile(f, expectedSize)

\* the existing file is complete: the result is returned without a transfer
M_ShortCircuit ==
    /\ pc = "m_existing"
    /\ \E resume \in BOOLEAN, verify \in BOOLEAN, expected \in ReqHashes :
          /\ skipExisting(resume, file, probed)
          /\ mgr' = [mgr EXCEPT !.Resume = resume, !.VerifyHash = verify,
                                !.reqHash = expected]
    /\ Succeed(Len(file.data), 0, EmptyStr, TRUE)
    /\ UNCHANGED <<mkdirCalled, entry, ctxDone, file, probed, sawCancel>>
    /\ UnchangedHTTP

\* otherwise m.httpClient.DownloadToFile(ctx, downloadURL, outputPath, ...)
M_StartTransfer ==
    /\ pc = "m_existing"
    /\ \E resume \in BOOLEAN :
          /\ ~skipExisting(resume, file, probed)
          /\ mgr' = [mgr EXCEPT !.Resume = resume]
    /\ pc' = "tf_head"
    /\ UNCHANGED <<mkdirCalled, entry, ctxDone, file, probed, sawCancel, result>>
    /\ UnchangedHTTP

\* if _, statErr := os.Stat(outputPath); statErr == nil { os.Remove(...) }:
\* the error of os.Remove is dropped, so a file whose removal the system
\* refuses stays as it is
removePartial(f, refused) == IF f.exists /\ refused THEN f ELSE NoFile

\* DownloadToFile returned an error; os.Remove succeeds or is refused
M_TransferFailed ==
    /\ entry = "manager"
    /\ pc = "tf_ret"
    /\ dlErr # NilErr
    /\ \E refused \in BOOLEAN : file' = removePartial(file, refused)
    /\ Fail(Wrap("download failed", dlErr))
    /\ UNCHANGED <<mkdirCalled, entry, ctxDone, mgr, probed, sawCancel>>
    /\ UnchangedHTTP

M_TransferDoneSkipsSizeCheck ==
    /\ entry = "manager"
    /\ pc = "tf_ret"
    /\ dlErr = NilErr
    /\ pc' = "m_hash"
    /\ UNCHANGED <<mkdirCalled, entry, ctxDone, file, mgr, probed, sawCancel, result>>
    /\ UnchangedHTTP

\* DownloadToFile returned nil
M_TransferDone ==
    /\ entry = "manager"
    /\ pc = "tf_ret"
    /\ dlErr = NilErr
    /\ pc' = "m_size"
    /\ UNCHANGED <<mkdirCalled, entry, ctxDone, file, mgr, probed, sawCancel, result>>
    /\ UnchangedHTTP

sizeMatchesAtLeast(f, expectedSize) == Len(f.data) >= expectedSize

\* finalFileInfo.Size() != fileInfo.Size  =>  "file size mismatch"
sizeMatches(f, expectedSize) == Len(f.data) = expectedSize

\* os.Stat(outputPath) and the size check
M_VerifySize ==
    /\ pc = "m_size"
    /\ IF ~file.exists
       THEN Fail(<<"failed to stat downloaded file">>)
       ELSE IF ~sizeMatches(file, probed)
            THEN Fail(<<"file size mismatch">>)
            ELSE pc' = "m_hash" /\ UNCHANGED result
    /\ UNCHANGED <<mkdirCalled, entry, ctxDone, file, mgr, probed, sawCancel>>
    /\ UnchangedHTTP

afterHashMismatchRemoved(f) == NoFile

\* return nil, fmt.Errorf("hash verification failed: ..."): nothing is done
\* to the file at outputPath
afterHashMismatch(f) == f

\* if m.options.VerifyHash && req.VerifyHash != "" { ... }; the result
M_VerifyHash ==
    /\ pc = "m_hash"
    /\ \E verify \in BOOLEAN, expected \in ReqHashes :
          /\ mgr' = [mgr EXCEPT !.VerifyHash = verify, !.reqHash = expected]
          /\ IF verify /\ expected.set
             THEN \/ /\ Fail(Wrap("failed to calculate hash",
                                  <<"failed to open file">>))
                     /\ UNCHANGED file
                  \/ IF ~hashEqual(CalculateHash(file), expected)
                     THEN /\ Fail(<<"hash verification failed">>)
                          /\ file' = afterHashMismatch(file)
                     ELSE /\ Succeed(probed, IF probed > 0 THEN 1 ELSE 0,
                                     CalculateHash(file), FALSE)
                          /\ UNCHANGED file
             ELSE /\ Succeed(probed, IF probed > 0 THEN 1 ELSE 0, EmptyStr, FALSE)
                  /\ UNCHANGED file
    /\ UNCHANGED <<mkdirCalled, entry, ctxDone, probed, sawCancel>>
    /\ UnchangedHTTP

NextManager ==
    \/ M_FindService
    \/ M_GetFileInfo
    \/ M_PrepareDownload
    \/ M_DetermineOutputPath
    \/ M_ShortCircuit
    \/ M_StartTransfer
    \/ M_TransferFailed
    \/ M_TransferDone
    \/ M_VerifySize
    \/ M_VerifyHash

(***************************************************************************)
(* Spec: one call of Manager.Download for a resource of 1..MaxTotal bytes, *)
(* with the output path absent or holding a file of the resource's size or *)
(* one byte more.                                                          *)
(***************************************************************************)
Init ==
    /\ entry = "manager"
    /\ pc = "m_find"
    /\ remote \in 1..MaxTotal
    /\ file \in {NoFile, FileOf(Garbled(remote)), FileOf(Garbled(remote + 1))}
    /\ totalSize = 0 /\ chunkSize = 0
    /\ serverExact = FALSE
    /\ ctxDone = FALSE /\ sawCancel = FALSE /\ httpUsed = FALSE
    /\ IdleChunk /\ IdleChunked /\ IdleManager /\ IdleTransfer /\ IdleResume /\ IdleTools

Next ==
    \/ NextManager
    \/ NextDownloadToFile
    \/ NextDownloadChunked
    \/ NextDownloadChunk
    \/ Cancel

Spec == Init /\ [][Next]_vars

(***************************************************************************)
(* SpecResume: up to MaxResumeCalls calls of one ResumeManager, on a       *)
(* resume directory that holds nothing, a record saved earlier for UrlA,   *)
(* damaged text, the JSON of another program or a file the process may     *)
(* not read.                                                               *)
(***************************************************************************)
IdleDownload ==
    /\ pc = "idle"
    /\ totalSize = 0 /\ chunkSize = 0 /\ remote = 0
    /\ ctxDone = FALSE /\ sawCancel = FALSE /\ httpUsed = FALSE
    /\ serverExact = FALSE
    /\ file = NoFile
    /\ IdleChunk /\ IdleChunked /\ IdleManager /\ IdleTransfer

\* the record an earlier run saved for UrlA
OldRecord ==
    ResumeDataOf(UrlA, PathP, 2 * MaxDownloaded, MaxDownloaded, 4,
                 TimeAt(1, FALSE), <<"a", "1">>)

\* the record this run saves
NewRecord ==
    ResumeDataOf(UrlB, PathQ, 2 * MaxDownloaded, MaxDownloaded, 4,
                 TimeAt(MaxTime, TRUE), <<>>)

InitialResumeFiles ==
    {NoResumeFile, ResumeFile(Garbage), ResumeFile(Foreign), LockedResumeFile,
     ResumeFile(MarshalIndent(OldRecord).text)}

OutputStats ==
    {StatAbsent, StatDenied}
        \cup {StatFile(size, TimeAt(t, FALSE)) :
                 size \in {MaxDownloaded - 1, MaxDownloaded}, t \in 0..MaxTime}

InitResume ==
    /\ entry = "resume"
    /\ IdleDownload /\ IdleTools
    /\ progress = NewRecord
    /\ \E f \in InitialResumeFiles :
          store = [n \in Filenames |->
                      IF n = getResumeFilename(UrlA) THEN f ELSE NoResumeFile]
    /\ \E st \in OutputStats :
          outputs = [p \in Paths |->
                        IF p = PathP THEN st
                        ELSE IF p = PathQ
                             THEN StatFile(MaxDownloaded, TimeAt(1, FALSE))
                             ELSE StatAbsent]
    /\ saver = NoSaver
    /\ rmLast = NoCall /\ rmPrev = NoCall /\ rmCalls = 0

SpecResume == InitResume /\ [][NextResume]_vars

(***************************************************************************)
(* SpecRoundTrip: SaveProgress of any record within the bounds into an     *)
(* empty resume directory, and LoadProgress.                               *)
(***************************************************************************)
AllProgress ==
    {ResumeDataOf(u, p, 2 * MaxDownloaded, down, csize, TimeAt(t, mono), h) :
        u \in URLs, p \in Paths, down \in {0 - 1, 0, MaxDownloaded},
        csize \in {0, DefaultChunkSize}, t \in 0..BeyondYear9999,
        mono \in BOOLEAN, h \in Hashes}

InitRoundTrip ==
    /\ entry = "resume"
    /\ IdleDownload /\ IdleTools
    /\ progress \in AllProgress
    /\ store = [n \in Filenames |-> NoResumeFile]
    /\ outputs = [p \in Paths |-> StatAbsent]
    /\ saver = NoSaver
    /\ rmLast = NoCall /\ rmPrev = NoCall /\ rmCalls = 0

NextRoundTrip ==
    \/ RM_SaveBegin
    \/ RM_SaveWrite
    \/ RM_SaveReturn
    \/ RM_LoadProgress

SpecRoundTrip == InitRoundTrip /\ [][NextRoundTrip]_vars

(***************************************************************************)
(* SpecResumeDownload: Manager.Resume, which is Manager.Download, for a    *)
(* resource of MaxTotal bytes whose first MaxChunk bytes, or all of whose  *)
(* bytes, an earlier run left at the output path together with a resume    *)
(* record; MaxConnections is the zero value, 1 or the default; the server  *)
(* answers a range request with exactly its bytes.                         *)
(***************************************************************************)
\* the record the earlier run saved when the output file held n bytes
SavedAt(n) ==
    ResumeDataOf(UrlA, PathP, MaxTotal, n, MaxChunk, TimeAt(1, FALSE), <<>>)

InitResumeDownload ==
    /\ entry = "manager"
    /\ pc = "m_find"
    /\ remote = MaxTotal
    /\ file \in {FileOf(Remote(MaxChunk)), FileOf(Remote(remote))}
    /\ totalSize = 0 /\ chunkSize = 0
    /\ serverExact = TRUE
    /\ ctxDone = FALSE /\ sawCancel = FALSE /\ httpUsed = FALSE
    /\ IdleChunk /\ IdleChunked /\ IdleTransfer /\ IdleTools
    /\ mgr \in {[NoManager EXCEPT !.MaxConnections = n] :
                   n \in {0, 1, DefaultMaxConnections}}
    /\ probed = 0 /\ result = NoResult
    /\ progress = ZeroResumeData
    /\ store = [n \in Filenames |->
                  IF n = getResumeFilename(UrlA)
                  THEN ResumeFile(MarshalIndent(SavedAt(Len(file.data))).text)
                  ELSE NoResumeFile]
    /\ outputs = [p \in Paths |->
                    IF p = PathP
                    THEN StatFile(Len(file.data), TimeAt(1, FALSE))
                    ELSE StatAbsent]
    /\ saver = NoSaver
    /\ rmLast = NoCall /\ rmPrev = NoCall /\ rmCalls = 0

SpecResumeDownload == InitResumeDownload /\ [][Next]_vars

(***************************************************************************)
(* progress.Tracker (pkg/utils/resume_test.go, package progress): one      *)
(* download started with StartDownload, its two chunks registered with     *)
(* AddChunk.  A worker per chunk calls UpdateChunkProgress with growing    *)
(* byte counts; a third goroutine calls CompleteDownload or FailDownload.  *)
(* Three locks: t.mu, progress.mu and progress.chunksMu.  The sections     *)
(* under chunksMu are one step each (every access to the chunks is under   *)
(* that lock); the sections that touch Downloaded, Status and Error are    *)
(* taken field by field.  Speed, ETA, LastUpdate and the progress bar are  *)
(* left out: no step reads them back.                                      *)
(***************************************************************************)
Workers == {"worker1", "worker2"}
Finisher == "finisher"
Goroutines == Workers \cup {Finisher}
NoGoroutine == "none"

TrackerRunning == "Running"
TrackerCompleted == "Completed"
TrackerFailed == "Failed"

TotalBytes == 2 * MaxChunkBytes

IdleCall == [pc |-> "idle", op |-> "none", downloaded |-> 0, total |-> 0]

\* after StartDownload(id, filename, TotalBytes) and AddChunk for each chunk
StartedTracker ==
    [Status |-> TrackerRunning, Downloaded |-> 0, Error |-> NilErr,
     chunks |-> [c \in Workers |-> 0],
     mu |-> NoGoroutine,       \* holder of t.mu.Lock()
     progressMu |-> NoGoroutine,  \* holder of progress.mu.Lock()
     peak |-> 0,               \* history: the largest Downloaded so far
     calls |-> [g \in Goroutines |-> IdleCall]]

UnchangedButTracker ==
    UNCHANGED <<downloadVars, resumeVars, cli, outPath, services, cleanup, tcalls>>

At(g, pcs) == tracker.calls[g].pc \in pcs

Goto(g, pcNext) == [tracker.calls[g] EXCEPT !.pc = pcNext]

\* for _, c := range progress.chunks { totalDownloaded += c.Downloaded }
RECURSIVE sumChunks(_, _)
sumChunks(cs, ids) ==
    IF ids = {} THEN 0
    ELSE LET c == CHOOSE c \in ids : TRUE
         IN  cs[c] + sumChunks(cs, ids \ {c})

\* UpdateChunkProgress(downloadID, chunkID, downloaded) is called by the
\* worker of the chunk with a larger byte count than before:
\* t.mu.RLock(); progress, exists := t.downloads[downloadID]; t.mu.RUnlock()
UCP_Lookup(w) ==
    /\ At(w, {"idle"})
    /\ tracker.mu = NoGoroutine
    /\ \E d \in (tracker.chunks[w] + 1)..MaxChunkBytes :
          tracker' = [tracker EXCEPT !.calls[w] =
                         [pc |-> "ucp_set", op |-> "UpdateChunkProgress",
                          downloaded |-> d, total |-> 0]]
    /\ UnchangedButTracker

\* progress.chunksMu.Lock(); chunk.Downloaded = downloaded; ...Unlock()
UCP_SetChunk(w) ==
    /\ At(w, {"ucp_set"})
    /\ tracker' = [tracker EXCEPT
                      !.chunks[w] = tracker.calls[w].downloaded,
                      !.calls[w] = Goto(w, "ucp_sum")]
    /\ UnchangedButTracker

\* progress.chunksMu.RLock(); the sum over the chunks; ...RUnlock()
UCP_Sum(w) ==
    /\ At(w, {"ucp_sum"})
    /\ tracker' = [tracker EXCEPT !.calls[w] =
                      [tracker.calls[w] EXCEPT
                          !.pc = "up_lookup",
                          !.total = sumChunks(tracker.chunks, Workers)]]
    /\ UnchangedButTracker

\* t.UpdateProgress(downloadID, totalDownloaded): the lookup under t.mu.RLock
UP_Lookup(w) ==
    /\ At(w, {"up_lookup"})
    /\ tracker.mu = NoGoroutine
    /\ tracker' = [tracker EXCEPT !.calls[w] = Goto(w, "up_lock")]
    /\ UnchangedButTracker

\* progress.mu.Lock()
UP_Lock(w) ==
    /\ At(w, {"up_lock"})
    /\ tracker.progressMu = NoGoroutine
    /\ tracker' = [tracker EXCEPT !.progressMu = w,
                                  !.calls[w] = Goto(w, "up_write")]
    /\ UnchangedButTracker

\* progress.Downloaded = downloaded
UP_Write(w) ==
    /\ At(w, {"up_write"})
    /\ tracker' = [tracker EXCEPT
                      !.Downloaded = tracker.calls[w].total,
                      !.peak = Max(tracker.peak, tracker.calls[w].total),
                      !.calls[w] = Goto(w, "up_unlock")]
    /\ UnchangedButTracker

\* defer progress.mu.Unlock(); both calls return
UP_Unlock(w) ==
    /\ At(w, {"up_unlock"})
    /\ tracker' = [tracker EXCEPT !.progressMu = NoGoroutine,
                                  !.calls[w] = IdleCall]
    /\ UnchangedButTracker

\* CompleteDownload(id) or FailDownload(id, err): t.mu.Lock() and the lookup
FIN_Lock ==
    /\ At(Finisher, {"idle"})
    /\ tracker.mu = NoGoroutine
    /\ \E op \in {"CompleteDownload", "FailDownload"} :
          tracker' = [tracker EXCEPT
                         !.mu = Finisher,
                         !.calls[Finisher] =
                             [pc |-> "fin_status", op |-> op,
                              downloaded |-> 0, total |-> 0]]
    /\ UnchangedButTracker

\* progress.Status = StatusCompleted / StatusFailed
FIN_Status ==
    /\ At(Finisher, {"fin_status"})
    /\ tracker' = [tracker EXCEPT
                      !.Status = IF tracker.calls[Finisher].op = "CompleteDownload"
                                 THEN TrackerCompleted ELSE TrackerFailed,
                      !.calls[Finisher] = Goto(Finisher, "fin_field")]
    /\ UnchangedButTracker

\* progress.Downloaded = progress.TotalBytes / progress.Error = err
FIN_Field ==
    /\ At(Finisher, {"fin_field"})
    /\ tracker' = IF tracker.calls[Finisher].op = "CompleteDownload"
                  THEN [tracker EXCEPT
                           !.Downloaded = TotalBytes,
                           !.peak = Max(tracker.peak, TotalBytes),
                           !.calls[Finisher] = Goto(Finisher, "fin_unlock")]
                  ELSE [tracker EXCEPT
                           !.Error = <<"download failed">>,
                           !.calls[Finisher] = Goto(Finisher, "fin_unlock")]
    /\ UnchangedButTracker

\* defer t.mu.Unlock()
FIN_Unlock ==
    /\ At(Finisher, {"fin_unlock"})
    /\ tracker' = [tracker EXCEPT !.mu = NoGoroutine,
                                  !.calls[Finisher] = Goto(Finisher, "done")]
    /\ UnchangedButTracker

NextTracker ==
    \/ \E w \in Workers : UCP_Lookup(w)
    \/ \E w \in Workers : UCP_SetChunk(w)
    \/ \E w \in Workers : UCP_Sum(w)
    \/ \E w \in Workers : UP_Lookup(w)
    \/ \E w \in Workers : UP_Lock(w)
    \/ \E w \in Workers : UP_Write(w)
    \/ \E w \in Workers : UP_Unlock(w)
    \/ FIN_Lock
    \/ FIN_Status
    \/ FIN_Field
    \/ FIN_Unlock

InitTracker ==
    /\ entry = "tracker"
    /\ IdleDownload /\ IdleResume
    /\ tracker = StartedTracker
    /\ cli = NoCli /\ outPath = NoOutPath
    /\ services = NoServices /\ cleanup = NoCleanup /\ tcalls = NoCalls

SpecTracker == InitTracker /\ [][NextTracker]_vars

(***************************************************************************)
(* The batch loop of the command line (unnamed/part_001, main).  The URL   *)
(* list is not empty when the loop is reached: main stops with             *)
(* logger.Fatal before it otherwise.  Whether manager.Download returns an  *)
(* error is an input of each turn; totalBytes is only logged.              *)
(***************************************************************************)
RECURSIVE ListsOf(_, _)
ListsOf(S, n) ==
    IF n = 0 THEN {<<>>}
    ELSE LET shorter == ListsOf(S, n - 1)
         IN  shorter \cup {Append(l, x) : l \in {s \in shorter : Len(s) = n - 1},
                                          x \in S}

Batches == ListsOf(URLs, MaxBatch) \ {<<>>}

\* var successCount, failCount int; the range loop is at its first element
BatchStart(urlList) ==
    [urlList |-> urlList, i |-> 1, attempted |-> <<>>,
     successCount |-> 0, failCount |-> 0, pc |-> "loop", exitCode |-> 0]

UnchangedButCli ==
    UNCHANGED <<downloadVars, resumeVars, tracker, outPath, services, cleanup, tcalls>>

afterFailureStop(i, n) == n + 1

\* `continue` after a failed download: the loop goes to the next URL
afterFailure(i, n) == i + 1

\* if failCount > 0 { os.Exit(1) }; main returns otherwise
exitCodeOf(failCount) == IF failCount > 0 THEN 1 ELSE 0

Attempt(ok) == [url |-> cli.urlList[cli.i], ok |-> ok]

\* result, err := manager.Download(ctx, req); err != nil: failCount++; continue
CLI_DownloadFailed ==
    /\ cli.pc = "loop"
    /\ cli.i <= Len(cli.urlList)
    /\ cli' = [cli EXCEPT !.attempted = Append(cli.attempted, Attempt(FALSE)),
                          !.failCount = cli.failCount + 1,
                          !.i = afterFailure(cli.i, Len(cli.urlList))]
    /\ UnchangedButCli

\* err == nil: the result is logged; successCount++
CLI_DownloadSucceeded ==
    /\ cli.pc = "loop"
    /\ cli.i <= Len(cli.urlList)
    /\ cli' = [cli EXCEPT !.attempted = Append(cli.attempted, Attempt(TRUE)),
                          !.successCount = cli.successCount + 1,
                          !.i = cli.i + 1]
    /\ UnchangedButCli

\* the summary after the loop and the exit of the process
CLI_Exit ==
    /\ cli.pc = "loop"
    /\ cli.i > Len(cli.urlList)
    /\ cli' = [cli EXCEPT !.pc = "exited",
                          !.exitCode = exitCodeOf(cli.failCount)]
    /\ UnchangedButCli

NextBatch ==
    \/ CLI_DownloadFailed
    \/ CLI_DownloadSucceeded
    \/ CLI_Exit

InitBatch ==
    /\ entry = "cli"
    /\ IdleDownload /\ IdleResume
    /\ \E urlList \in Batches : cli = BatchStart(urlList)
    /\ tracker = NoTracker /\ outPath = NoOutPath
    /\ services = NoServices /\ cleanup = NoCleanup /\ tcalls = NoCalls

SpecBatch == InitBatch /\ [][NextBatch]_vars

(***************************************************************************)
(* Manager.determineOutputPath (pkg/downloader/manager.go).  A path is the *)
(* sequence of its elements, "/" first when it is rooted; the empty        *)
(* sequence is the empty string.  filepath.Clean, Join and Dir and         *)
(* os.MkdirAll are computed as the library computes them, on a small file  *)
(* system with a working directory, a regular file and a directory the     *)
(* process may not write into.                                             *)
(***************************************************************************)
EmptyString == <<>>
Root == <<"/">>
Dot == <<".">>

IsRooted(p) == p # EmptyString /\ p[1] = "/"

Elements(p) == IF IsRooted(p) THEN Tail(p) ELSE p

\* filepath.Clean: "." elements dropped, ".." takes back the element before
\* it, ".." at the root dropped, leading ".." of a relative path kept
RECURSIVE cleanElements(_, _, _)
cleanElements(rooted, out, rest) ==
    IF rest = <<>> THEN out
    ELSE LET e == Head(rest)
         IN  IF e = "."
             THEN cleanElements(rooted, out, Tail(rest))
             ELSE IF e = ".."
             THEN IF out # <<>> /\ out[Len(out)] # ".."
                  THEN cleanElements(rooted, SubSeq(out, 1, Len(out) - 1), Tail(rest))
                  ELSE IF rooted
                  THEN cleanElements(rooted, out, Tail(rest))
                  ELSE cleanElements(rooted, Append(out, e), Tail(rest))
             ELSE cleanElements(rooted, Append(out, e), Tail(rest))

Clean(p) ==
    LET out == cleanElements(IsRooted(p), <<>>, Elements(p))
    IN  IF IsRooted(p) THEN Root \o out
        ELSE IF out = <<>> THEN Dot ELSE out

\* filepath.Join(dir, name): empty elements are ignored, the rest is joined
\* with the separator and cleaned
Join(dir, name) ==
    IF dir = EmptyString /\ name = EmptyString THEN EmptyString
    ELSE IF dir = EmptyString THEN Clean(name)
    ELSE Clean(dir \o Elements(name))

\* filepath.Dir: all but the last element, cleaned
Dir(p) ==
    IF p = EmptyString THEN Dot
    ELSE IF p = Root THEN Root
    ELSE Clean(SubSeq(p, 1, Len(p) - 1))

WorkingDir == <<"/", "w">>

\* the directory the operating system resolves p to
Resolved(p) == IF IsRooted(p) THEN Clean(p) ELSE Clean(WorkingDir \o p)

\* os.MkdirAll(p, 0755): every missing directory on the way is made, from
\* the top; it fails at a regular file and in a directory that is read-only
RECURSIVE mkdirFrom(_, _, _)
mkdirFrom(fs, target, k) ==
    IF k > Len(target) THEN [fs |-> fs, ok |-> TRUE]
    ELSE LET here == SubSeq(target, 1, k)
             parent == IF k = 2 THEN Root ELSE SubSeq(target, 1, k - 1)
         IN  IF here \in fs.files THEN [fs |-> fs, ok |-> FALSE]
             ELSE IF here \in fs.dirs THEN mkdirFrom(fs, target, k + 1)
             ELSE IF parent \in fs.readOnly THEN [fs |-> fs, ok |-> FALSE]
             ELSE mkdirFrom([fs EXCEPT !.dirs = fs.dirs \cup {here}],
                            target, k + 1)

MkdirAll(fs, p) == mkdirFrom(fs, Resolved(p), 2)

DefaultFilename == <<"download">>

OutputDirs == {Dot, <<"/", "d">>, <<"/", "n", "m">>, <<"/", "f">>, <<"/", "r", "n">>}

ExplicitPaths == {EmptyString, <<"/", "d", "x", "o">>, <<"o">>,
                  <<"/", "f", "o">>, <<"n", "..", "o">>}

CustomFilenames == {EmptyString, <<"c">>, <<"s", "c">>, <<"..", "c">>}

DetectedFilenames == {EmptyString, <<"p">>}

DiskAtStart ==
    [dirs |-> {Root, WorkingDir, <<"/", "d">>, <<"/", "r">>},
     files |-> {<<"/", "f">>},
     readOnly |-> {<<"/", "r">>}]

CallDetermineOutputPath(dir, explicit, custom, detected) ==
    [pc |-> "dop_choose", OutputDir |-> dir, OutputPath |-> explicit,
     CustomFilename |-> custom, detectedFilename |-> detected,
     fs |-> DiskAtStart, outputPath |-> EmptyString,
     result |-> EmptyString, err |-> NilErr]

UnchangedButOutPath ==
    UNCHANGED <<downloadVars, resumeVars, tracker, cli, services, cleanup, tcalls>>

filenameDetectedFirst(custom, detected) ==
    IF detected # EmptyString THEN detected
    ELSE IF custom # EmptyString THEN custom
    ELSE DefaultFilename

\* filename := req.CustomFilename; if empty, detectedFilename; if empty,
\* "download"
filenameOf(custom, detected) ==
    IF custom # EmptyString THEN custom
    ELSE IF detected # EmptyString THEN detected
    ELSE DefaultFilename

\* the first half of determineOutputPath: the explicit path as it is, or the
\* file name joined with the output directory of the manager
DOP_Choose ==
    /\ outPath.pc = "dop_choose"
    /\ outPath' =
          [outPath EXCEPT
              !.pc = "dop_mkdir",
              !.outputPath =
                  IF outPath.OutputPath # EmptyString
                  THEN outPath.OutputPath
                  ELSE Join(outPath.OutputDir,
                            filenameOf(outPath.CustomFilename,
                                       outPath.detectedFilename))]
    /\ UnchangedButOutPath

\* os.MkdirAll(filepath.Dir(outputPath), 0755) and the return
DOP_MkdirAll ==
    /\ outPath.pc = "dop_mkdir"
    /\ LET made == MkdirAll(outPath.fs, Dir(outPath.outputPath))
       IN  outPath' =
              [outPath EXCEPT
                  !.pc = "dop_returned",
                  !.fs = made.fs,
                  !.result = IF made.ok THEN outPath.outputPath ELSE EmptyString,
                  !.err = IF made.ok THEN NilErr
                          ELSE <<"failed to create output directory">>]
    /\ UnchangedButOutPath

NextPath ==
    \/ DOP_Choose
    \/ DOP_MkdirAll

InitPath ==
    /\ entry = "path"
    /\ IdleDownload /\ IdleResume
    /\ \E dir \in OutputDirs, explicit \in ExplicitPaths,
          custom \in CustomFilenames, detected \in DetectedFilenames :
          outPath = CallDetermineOutputPath(dir, explicit, custom, detected)
    /\ tracker = NoTracker /\ cli = NoCli
    /\ services = NoServices /\ cleanup = NoCleanup /\ tcalls = NoCalls

SpecPath == InitPath /\ [][NextPath]_vars

(***************************************************************************)
(* Manager.RegisterService and Manager.FindService                         *)
(* (pkg/downloader/manager.go).  A service is named by what it supports:   *)
(* IsSupported is a table over a few URLs, two of which are supported by   *)
(* more than one service.                                                  *)
(***************************************************************************)
NilService == "nil"

ServiceNames == {"service1", "service2", "service12"}

LookupURLs == {"service1.com/f", "service2.com/f", "service1.com/service2.com", "unknown.com/f"}

\* service.IsSupported(url)
IsSupported(service, url) ==
    \/ service = "service1" /\ url \in {"service1.com/f", "service1.com/service2.com"}
    \/ service = "service2" /\ url \in {"service2.com/f", "service1.com/service2.com"}
    \/ service = "service12" /\ url \in {"service1.com/f", "service2.com/f"}

\* services: make([]interfaces.CloudService, 0)
NoServicesYet ==
    [list |-> <<>>,
     order |-> <<>>,      \* history: the services in the order of the calls
     last |-> [url |-> "", found |-> NilService, at |-> 0]]

UnchangedButServices ==
    UNCHANGED <<downloadVars, resumeVars, tracker, cli, outPath, cleanup, tcalls>>

registerFirst(list, service) == <<service>> \o list

\* m.services = append(m.services, service)
registerInto(list, service) == Append(list, service)

\* for _, service := range m.services { if service.IsSupported(url) { return
\* service } }; return nil
RECURSIVE findService(_, _)
findService(list, url) ==
    IF list = <<>> THEN NilService
    ELSE IF IsSupported(Head(list), url) THEN Head(list)
    ELSE findService(Tail(list), url)

RegisterService(service) ==
    /\ Len(services.list) < MaxServices
    /\ services' = [services EXCEPT
                       !.list = registerInto(services.list, service),
                       !.order = Append(services.order, service)]
    /\ UnchangedButServices

FindService(url) ==
    /\ services' = [services EXCEPT
                       !.last = [url |-> url,
                                 found |-> findService(services.list, url),
                                 at |-> Len(services.order)]]
    /\ UnchangedButServices

NextRegistry ==
    \/ \E service \in ServiceNames : RegisterService(service)
    \/ \E url \in LookupURLs : FindService(url)

InitRegistry ==
    /\ entry = "registry"
    /\ IdleDownload /\ IdleResume
    /\ services = NoServicesYet
    /\ tracker = NoTracker /\ cli = NoCli
    /\ outPath = NoOutPath /\ cleanup = NoCleanup /\ tcalls = NoCalls

SpecRegistry == InitRegistry /\ [][NextRegistry]_vars

(***************************************************************************)
(* ResumeManager.CleanupOldResumeData (unnamed/part_008).  The resume      *)
(* directory holds up to three entries, each a regular file or a           *)
(* directory with a modification time; "gone" is a file that os.ReadDir    *)
(* listed and another process deleted before entry.Info().  The directory  *)
(* itself may be unreadable (os.ReadDir fails) or read-only (os.Remove     *)
(* fails).  The caller may cancel ctx at any moment.                       *)
(***************************************************************************)
CleanupNames == <<"a.json", "b.json", "c">>

NoEntry == [kind |-> "absent", mtime |-> ZeroTime]
FileEntry(t) == [kind |-> "file", mtime |-> TimeAt(t, FALSE)]
DirEntry(t) == [kind |-> "dir", mtime |-> TimeAt(t, FALSE)]
GoneEntry == [kind |-> "gone", mtime |-> ZeroTime]

DirEntries ==
    {NoEntry, GoneEntry} \cup {FileEntry(t) : t \in 0..MaxTime}
                         \cup {DirEntry(t) : t \in 0..MaxTime}

DirModes == {"writable", "readonly", "unreadable"}

\* t.Before(u)
Before(t, u) == t.wall < u.wall

\* time.Now().Add(-maxAge)
cutoffOf(now, maxAge) == TimeAt(now.wall - maxAge, now.mono)

isOldOrAtCutoff(mtime, cutoff) == ~After(mtime, cutoff)

\* info.ModTime().Before(cutoff)
isOld(mtime, cutoff) == Before(mtime, cutoff)

\* os.ReadDir(rm.resumeDir): the names present, sorted
listed(dir) ==
    SelectSeq(CleanupNames, LAMBDA n : dir[n].kind # "absent")

CallCleanup(dir, mode, maxAge) ==
    [pc |-> "cl_readdir", dir |-> dir, before |-> dir, mode |-> mode,
     maxAge |-> maxAge, cutoff |-> ZeroTime, entries |-> <<>>, i |-> 1,
     ctxDone |-> FALSE, err |-> NilErr,
     cancelledBefore |-> FALSE,  \* history: ctx was cancelled before ReadDir
     cancelPos |-> 0]            \* history: the turn ctx was cancelled before

UnchangedButCleanup ==
    UNCHANGED <<downloadVars, resumeVars, tracker, cli, outPath, services,
                tcalls>>

\* entries, err := os.ReadDir(rm.resumeDir); cutoff := time.Now().Add(-maxAge)
CL_ReadDir ==
    /\ cleanup.pc = "cl_readdir"
    /\ cleanup' =
          IF cleanup.mode = "unreadable"
          THEN [cleanup EXCEPT
                   !.pc = "cl_returned",
                   !.err = Wrap("failed to read resume directory", PermissionErr)]
          ELSE [cleanup EXCEPT
                   !.pc = "cl_loop",
                   !.entries = listed(cleanup.dir),
                   !.cutoff = cutoffOf(TimeAt(MaxTime, TRUE), cleanup.maxAge)]
    /\ UnchangedButCleanup

ctxIgnored(done) == FALSE

\* select { case <-ctx.Done(): return ctx.Err(); default: }
ctxObserved(done) == done

\* one turn of the loop over the entries
CL_Entry ==
    /\ cleanup.pc = "cl_loop"
    /\ cleanup.i <= Len(cleanup.entries)
    /\ LET name == cleanup.entries[cleanup.i]
           e == cleanup.dir[name]
       IN  cleanup' =
              IF ctxObserved(cleanup.ctxDone)
              THEN [cleanup EXCEPT !.pc = "cl_returned", !.err = CtxErr]
              ELSE IF e.kind = "dir" \/ e.kind = "gone"
              THEN [cleanup EXCEPT !.i = cleanup.i + 1]
              ELSE IF isOld(e.mtime, cleanup.cutoff)
                      /\ cleanup.mode = "writable"
              THEN [cleanup EXCEPT !.i = cleanup.i + 1,
                                   !.dir[name] = NoEntry]
              ELSE [cleanup EXCEPT !.i = cleanup.i + 1]
    /\ UnchangedButCleanup

\* return nil after the loop
CL_Return ==
    /\ cleanup.pc = "cl_loop"
    /\ cleanup.i > Len(cleanup.entries)
    /\ cleanup' = [cleanup EXCEPT !.pc = "cl_returned"]
    /\ UnchangedButCleanup

\* the caller cancels ctx
CL_Cancel ==
    /\ cleanup.pc \in {"cl_readdir", "cl_loop"}
    /\ ~cleanup.ctxDone
    /\ cleanup' = [cleanup EXCEPT
                      !.ctxDone = TRUE,
                      !.cancelledBefore = (cleanup.pc = "cl_readdir"),
                      !.cancelPos = IF cleanup.pc = "cl_loop"
                                    THEN cleanup.i ELSE 0]
    /\ UnchangedButCleanup

NextCleanup ==
    \/ CL_ReadDir
    \/ CL_Entry
    \/ CL_Return
    \/ CL_Cancel

InitCleanup ==
    /\ entry = "cleanup"
    /\ IdleDownload /\ IdleResume
    /\ \E a \in DirEntries, b \in DirEntries, c \in DirEntries,
          mode \in DirModes, maxAge \in 0..MaxTime :
          cleanup = CallCleanup(
              [n \in {CleanupNames[k] : k \in 1..Len(CleanupNames)} |->
                  IF n = CleanupNames[1] THEN a
                  ELSE IF n = CleanupNames[2] THEN b ELSE c],
              mode, maxAge)
    /\ tracker = NoTracker /\ cli = NoCli
    /\ outPath = NoOutPath /\ services = NoServices /\ tcalls = NoCalls

SpecCleanup == InitCleanup /\ [][NextCleanup]_vars

(***************************************************************************)
(* Concurrent calls of the Tracker's methods (pkg/utils/resume_test.go,    *)
(* package progress).  Callers call any method with the id of one          *)
(* download, again and again; another goroutine calls WaitForCompletion    *)
(* once.                                                                   *)
(* Every method is a sequence of lock sections, none inside another, so a  *)
(* call is at a section and has either arrived at its lock or not.         *)
(* t.mu and progress.chunksMu are sync.RWMutex: Lock takes the writers'    *)
(* mutex, announces the writer and waits for the readers that hold the     *)
(* lock to leave; an RLock that comes after the announcement waits for the *)
(* writer's Unlock, which lets in all the readers that waited.             *)
(* progress.mu is a sync.Mutex.  progress.mu and progress.chunksMu belong  *)
(* to the *DownloadProgress: StartDownload stores a new object with locks  *)
(* of its own, and a call that looked up the object before goes on with    *)
(* the locks of the object it found.  With two callers at most one object  *)
(* that has left t.downloads is still in use, for the caller that takes an *)
(* object out of the map holds none: the model names the objects by their  *)
(* place, the one in t.downloads and the one taken out of it.              *)
(* Pending and Paused are statuses the owner of a *DownloadProgress has    *)
(* set before the calls; no method of the Tracker sets them.               *)
(***************************************************************************)
Callers == {"caller1", "caller2"}
Waiter == "waiter"
Ids == {"d1"}
Absent == "absent"
TrackerPending == "Pending"
TrackerPaused == "Paused"

TrackerOps ==
    {"StartDownload", "AddChunk", "UpdateChunkProgress", "UpdateProgress",
     "SetChunkStatus", "CompleteDownload", "FailDownload", "GetProgress",
     "GetAllProgress", "RemoveDownload"}

\* the *DownloadProgress objects that can be in use at one time: the one in
\* t.downloads and the one a call found before StartDownload replaced it or
\* RemoveDownload deleted it
Current == "current"
Replaced == "replaced"
Objects == {Current, Replaced}
NoObject == "none"

TMu == <<"t.mu", "t">>
ProgressMu(o) == <<"progress.mu", o>>
ChunksMu(o) == <<"progress.chunksMu", o>>
LockNames ==
    {TMu} \cup {ProgressMu(o) : o \in Objects}
          \cup {ChunksMu(o) : o \in Objects}

\* w: the writer that has announced itself; readers: the holders of the read
\* lock; blocked: the readers that wait for the writer's Unlock
FreeLock == [w |-> NoGoroutine, readers |-> {}, blocked |-> {}]

\* obj: the *DownloadProgress the call's last lookup found
IdleCaller ==
    [op |-> "none", id |-> "none", obj |-> NoObject, at |-> 0,
     arrived |-> FALSE]

\* UpdateProgress: the lookup under t.mu.RLock(), then progress.mu.Lock()
UpdateProgressSections(o) ==
    << <<TMu, "RLock">>, <<ProgressMu(o), "Lock">> >>

\* the lock sections of a method in the order it goes through them, the locks
\* after a lookup being those of the object o it found
Sections(op, o) ==
    CASE op \in {"StartDownload", "CompleteDownload", "FailDownload",
                 "RemoveDownload"} ->
            << <<TMu, "Lock">> >>
      [] op \in {"GetProgress", "GetAllProgress"} ->
            << <<TMu, "RLock">> >>
      [] op = "UpdateProgress" -> UpdateProgressSections(o)
      [] op \in {"AddChunk", "SetChunkStatus"} ->
            << <<TMu, "RLock">>, <<ChunksMu(o), "Lock">> >>
      [] op = "UpdateChunkProgress" ->
            << <<TMu, "RLock">>, <<ChunksMu(o), "Lock">>,
               <<ChunksMu(o), "RLock">> >>
            \o UpdateProgressSections(o)

\* what a section under t.mu.Lock() leaves in t.downloads[id]
statusAfter(op, status) ==
    CASE op = "StartDownload" -> TrackerRunning
      [] op = "CompleteDownload" ->
            IF status = Absent THEN Absent ELSE TrackerCompleted
      [] op = "FailDownload" ->
            IF status = Absent THEN Absent ELSE TrackerFailed
      [] op = "RemoveDownload" -> Absent
      [] OTHER -> status

\* t.downloads[id] = progress and delete(t.downloads, id) take the object
\* that was in the map out of it
takesOut(op) == op \in {"StartDownload", "RemoveDownload"}

\* the locks after the object in the map was taken out while a call held it:
\* the object keeps its locks, and the map's next object has locks of its own
locksTaken(locks) ==
    [n \in LockNames |->
        CASE n = ProgressMu(Replaced) -> locks[ProgressMu(Current)]
          [] n = ChunksMu(Replaced) -> locks[ChunksMu(Current)]
          [] n = TMu -> locks[TMu]
          [] OTHER -> FreeLock]

\* the section after section k, 0 when the call returns: after the last one,
\* and after a lookup that did not find the download (if !exists { return })
nextSection(op, o, k, status) ==
    IF k = Len(Sections(op, o)) THEN 0
    ELSE IF Sections(op, o)[k] = <<TMu, "RLock">> /\ status = Absent THEN 0
    ELSE k + 1

\* Lock() can take the writers' mutex; RLock() never waits to be counted
canArrive(l, mode) == mode = "RLock" \/ l.w = NoGoroutine

\* Lock() announces the writer; RLock() holds the lock at once unless a
\* writer has announced itself
arrivedAt(l, g, mode) ==
    IF mode = "Lock" THEN [l EXCEPT !.w = g]
    ELSE IF l.w = NoGoroutine THEN [l EXCEPT !.readers = @ \cup {g}]
    ELSE [l EXCEPT !.blocked = @ \cup {g}]

\* a reader that also waits for the announced writer to go away
holdsUnannounced(l, g, mode) ==
    IF mode = "Lock" THEN l.w = g /\ l.readers = {}
    ELSE g \in l.readers /\ l.w = NoGoroutine

\* the call is inside its section
holds(l, g, mode) ==
    IF mode = "Lock" THEN l.w = g /\ l.readers = {} ELSE g \in l.readers

\* Unlock() lets in the readers that waited; RUnlock() leaves
released(l, g, mode) ==
    IF mode = "Lock"
    THEN [l EXCEPT !.w = NoGoroutine, !.readers = l.blocked, !.blocked = {}]
    ELSE [l EXCEPT !.readers = @ \ {g}]

\* the loop of WaitForCompletion decides on Running alone
allDoneButPending(ds) ==
    \A id \in Ids : ds[id] # TrackerRunning

\* allDone := true; for _, progress := range t.downloads { if Status is
\* Running or Pending { allDone = false; break } }
allDone(ds) ==
    \A id \in Ids :
        ds[id] = Absent \/ ds[id] \notin {TrackerRunning, TrackerPending}

UnchangedButCalls ==
    UNCHANGED <<downloadVars, resumeVars, tracker, cli, outPath, services,
                cleanup>>

\* a caller calls a method of the Tracker
T_Call(g) ==
    /\ tcalls.calls[g].at = 0
    /\ \E op \in TrackerOps, id \in Ids :
          tcalls' = [tcalls EXCEPT !.calls[g] =
                        [op |-> op, id |-> id, obj |-> NoObject, at |-> 1,
                         arrived |-> FALSE]]
    /\ UnchangedButCalls

\* the call reaches the Lock() or RLock() of its section
T_Arrive(g) ==
    LET c == tcalls.calls[g]
        sec == Sections(c.op, c.obj)[c.at]
    IN  /\ c.at > 0
        /\ ~c.arrived
        /\ canArrive(tcalls.locks[sec[1]], sec[2])
        /\ tcalls' = [tcalls EXCEPT
                         !.locks[sec[1]] = arrivedAt(@, g, sec[2]),
                         !.calls[g].arrived = TRUE]
        /\ UnchangedButCalls

\* the call has the lock, runs the section and unlocks; it goes on to its
\* next section or returns.  A section under t.mu.RLock() is a lookup:
\* progress, exists := t.downloads[id]
T_Leave(g) ==
    LET c == tcalls.calls[g]
        sec == Sections(c.op, c.obj)[c.at]
        status == tcalls.downloads[c.id]
        next == nextSection(c.op, c.obj, c.at, status)
        out == /\ sec = <<TMu, "Lock">> /\ takesOut(c.op)
               /\ \E h \in Callers \ {g} : tcalls.calls[h].obj = Current
        locks == IF out THEN locksTaken(tcalls.locks) ELSE tcalls.locks
    IN  /\ c.at > 0
        /\ c.arrived
        /\ holds(tcalls.locks[sec[1]], g, sec[2])
        /\ tcalls' = [tcalls EXCEPT
                         !.locks = [locks EXCEPT
                                      ![sec[1]] = released(@, g, sec[2])],
                         !.downloads[c.id] =
                             IF sec = <<TMu, "Lock">>
                             THEN statusAfter(c.op, status) ELSE status,
                         !.calls =
                             [h \in Callers |->
                                IF h = g
                                THEN IF next = 0 THEN IdleCaller
                                     ELSE [c EXCEPT
                                             !.obj =
                                                IF sec = <<TMu, "RLock">>
                                                THEN Current ELSE @,
                                             !.at = next,
                                             !.arrived = FALSE]
                                ELSE IF out
                                THEN [tcalls.calls[h] EXCEPT
                                        !.obj = IF @ = Current
                                                THEN Replaced ELSE @]
                                ELSE tcalls.calls[h]]]
        /\ UnchangedButCalls

\* WaitForCompletion(ctx): ticker := time.NewTicker(100 * time.Millisecond)
WFC_Call ==
    /\ tcalls.waiter.pc = "idle"
    /\ tcalls' = [tcalls EXCEPT !.waiter.pc = "select", !.tick = FALSE]
    /\ UnchangedButCalls

\* 100 ms have passed: a tick is ready on ticker.C, which holds one tick
TickerFires ==
    /\ tcalls.waiter.pc = "select"
    /\ ~tcalls.tick
    /\ tcalls' = [tcalls EXCEPT !.tick = TRUE]
    /\ UnchangedButCalls

\* case <-ctx.Done(): return ctx.Err()
WFC_CtxDone ==
    /\ tcalls.waiter.pc = "select"
    /\ tcalls.ctxDone
    /\ tcalls' = [tcalls EXCEPT !.waiter.pc = "returned",
                                !.waiter.result = "canceled"]
    /\ UnchangedButCalls

\* case <-ticker.C: t.mu.RLock()
WFC_Tick ==
    /\ tcalls.waiter.pc = "select"
    /\ tcalls.tick
    /\ tcalls' = [tcalls EXCEPT
                     !.tick = FALSE,
                     !.locks[TMu] = arrivedAt(@, Waiter, "RLock"),
                     !.waiter.pc = "check"]
    /\ UnchangedButCalls

\* the loop over t.downloads under the read lock; t.mu.RUnlock()
WFC_Check ==
    /\ tcalls.waiter.pc = "check"
    /\ holds(tcalls.locks[TMu], Waiter, "RLock")
    /\ tcalls' = [tcalls EXCEPT
                     !.locks[TMu] = released(@, Waiter, "RLock"),
                     !.waiter.pc = IF allDone(tcalls.downloads)
                                   THEN "ret_nil" ELSE "select"]
    /\ UnchangedButCalls

\* if allDone { return nil }
WFC_ReturnNil ==
    /\ tcalls.waiter.pc = "ret_nil"
    /\ tcalls' = [tcalls EXCEPT !.waiter.pc = "returned",
                                !.waiter.result = "nil",
                                !.waiter.busyAtReturn =
                                    \E id \in Ids : tcalls.downloads[id] \in
                                        {TrackerRunning, TrackerPending}]
    /\ UnchangedButCalls

\* the owner of the context cancels it
T_CancelCtx ==
    /\ ~tcalls.ctxDone
    /\ tcalls' = [tcalls EXCEPT
                     !.ctxDone = TRUE,
                     !.waiter.cancelledFirst =
                         /\ tcalls.waiter.pc \in {"idle", "select", "check"}
                         /\ \E id \in Ids : tcalls.downloads[id] \in
                                {TrackerRunning, TrackerPending}]
    /\ UnchangedButCalls

\* SpecCalls: the two callers and WaitForCompletion(context.Background())
NextCalls ==
    \/ \E g \in Callers : T_Call(g)
    \/ \E g \in Callers : T_Arrive(g)
    \/ \E g \in Callers : T_Leave(g)
    \/ WFC_Call
    \/ TickerFires
    \/ WFC_Tick
    \/ WFC_Check
    \/ WFC_ReturnNil

\* SpecWait: WaitForCompletion(ctx) with a context that may be cancelled,
\* next to one caller
FirstCaller == "caller1"

NextWait ==
    \/ T_Call(FirstCaller)
    \/ T_Arrive(FirstCaller)
    \/ T_Leave(FirstCaller)
    \/ WFC_Call
    \/ TickerFires
    \/ WFC_CtxDone
    \/ WFC_Tick
    \/ WFC_Check
    \/ WFC_ReturnNil
    \/ T_CancelCtx

\* cancelledFirst and busyAtReturn are history: the context was cancelled
\* while a download was Running or Pending and no check of WaitForCompletion
\* had found every download done; a download was Running or Pending when
\* WaitForCompletion returned nil
NewCalls(ds) ==
    [downloads |-> ds,
     locks |-> [n \in LockNames |-> FreeLock],
     calls |-> [g \in Callers |-> IdleCaller],
     waiter |-> [pc |-> "idle", result |-> "none", cancelledFirst |-> FALSE,
                 busyAtReturn |-> FALSE],
     ctxDone |-> FALSE,
     tick |-> FALSE]

InitCalls ==
    /\ entry = "calls"
    /\ IdleDownload /\ IdleResume
    /\ \E ds \in [Ids -> {Absent, TrackerRunning}] : tcalls = NewCalls(ds)
    /\ tracker = NoTracker /\ cli = NoCli /\ outPath = NoOutPath
    /\ services = NoServices /\ cleanup = NoCleanup

InitWait ==
    /\ entry = "wait"
    /\ IdleDownload /\ IdleResume
    /\ \E ds \in [Ids -> {Absent, TrackerRunning, TrackerPending,
                          TrackerPaused}] : tcalls = NewCalls(ds)
    /\ tracker = NoTracker /\ cli = NoCli /\ outPath = NoOutPath
    /\ services = NoServices /\ cleanup = NoCleanup

SpecCalls == InitCalls /\ [][NextCalls]_vars

\* The scheduler runs every goroutine that can take a step.  A goroutine that
\* waits for a sync.Mutex gets it when the mutex is free again and again
\* (the mutex hands over to a waiter that has waited long), and a select
\* with several ready cases picks each of them in the long run.  Nothing
\* obliges a caller to call, or the context to be cancelled.
FairCalls ==
    /\ \A g \in Callers : SF_vars(T_Arrive(g)) /\ WF_vars(T_Leave(g))
    /\ WF_vars(TickerFires)
    /\ WF_vars(WFC_Tick)
    /\ WF_vars(WFC_Check)
    /\ WF_vars(WFC_ReturnNil)

FairWait ==
    /\ SF_vars(T_Arrive(FirstCaller)) /\ WF_vars(T_Leave(FirstCaller))
    /\ WF_vars(TickerFires)
    /\ WF_vars(WFC_Tick)
    /\ SF_vars(WFC_CtxDone)
    /\ WF_vars(WFC_Check)
    /\ WF_vars(WFC_ReturnNil)

SpecCallsFair == SpecCalls /\ FairCalls

SpecWait == InitWait /\ [][NextWait]_vars

SpecWaitFair == SpecWait /\ FairWait

(***************************************************************************)
(* Claims about calculateChunks (SpecPlan).                                *)
(***************************************************************************)
Planned == pc = "planned"

\* C2: for totalSize >= 0 and chunkSize > 0 the plan starts at 0, each chunk
\* starts right after the one before, each has Size = End - Start + 1 >= 1,
\* the last ends at totalSize - 1 and the Sizes sum to totalSize.
C2_PlanCoversExactly ==
    (Planned /\ totalSize >= 0) =>
        /\ SumSizes(chunks) = totalSize
        /\ \A i \in 1..Len(chunks) :
              /\ chunks[i].Size = chunks[i].End - chunks[i].Start + 1
              /\ chunks[i].Size >= 1
              /\ chunks[i].Start = IF i = 1 THEN 0 ELSE chunks[i - 1].End + 1
        /\ Len(chunks) > 0 => chunks[Len(chunks)].End = totalSize - 1

C2_Witness ==
    /\ Planned /\ totalSize = 7 /\ chunkSize = 3
    /\ Len(chunks) = 3 /\ chunks[3].Start = 6 /\ chunks[3].End = 6

CeilDiv(a, b) == (a + b - 1) \div b

\* C3: for totalSize > 0 the plan has ceil(totalSize / chunkSize) chunks, all
\* but the last of Size chunkSize, the last of Size
\* totalSize - (count - 1) * chunkSize in 1..chunkSize; for totalSize <= 0 the
\* plan is empty.
C3_PlanCount ==
    Planned =>
        IF totalSize <= 0
        THEN chunks = <<>>
        ELSE LET count == Len(chunks)
             IN  /\ count = CeilDiv(totalSize, chunkSize)
                 /\ \A i \in 1..(count - 1) : chunks[i].Size = chunkSize
                 /\ chunks[count].Size = totalSize - (count - 1) * chunkSize
                 /\ chunks[count].Size \in 1..chunkSize

C3_Witness ==
    /\ Planned /\ totalSize = 11 /\ chunkSize = 4
    /\ Len(chunks) = 3 /\ chunks[3].Size = 3

(***************************************************************************)
(* Claims about downloadChunked and DownloadChunk.                         *)
(***************************************************************************)
ChunkedSucceeded == entry = "chunked" /\ pc = "tf_ret" /\ dlErr = NilErr

Disjoint(w1, w2) == w1[1] + w1[2] <= w2[1] \/ w2[1] + w2[2] <= w1[1]

\* C1: with a server that answers every range request with exactly the
\* requested bytes, a downloadChunked that returns nil leaves a file of
\* totalSize bytes equal to the resource at every offset; each chunk was
\* written at its Start and no offset was written twice.
C1_ChunkedReproducesResource ==
    (ChunkedSucceeded /\ serverExact) =>
        /\ file.exists
        /\ Len(file.data) = totalSize
        /\ \A i \in 1..totalSize : file.data[i] = Remote(remote)[i]
        /\ Len(writes) = Len(chunks)
        /\ \A i \in 1..Len(writes) :
              writes[i] = <<chunks[i].Start, chunks[i].Size>>
        /\ \A i, j \in 1..Len(writes) :
              i # j => Disjoint(writes[i], writes[j])

C1_Witness ==
    /\ ChunkedSucceeded /\ serverExact
    /\ totalSize = 3 /\ chunkSize = 2 /\ Len(writes) = 2
    /\ file.data = <<1, 2, 3>>

Acceptable(r, c) ==
    /\ r.status \in {200, 206}
    /\ Len(r.body) = c.Size

\* C9: an attempt succeeds only if the status is 200 or 206 and the body has
\* chunk.Size bytes, and then DownloadChunk returns that body; any other
\* response is a failed attempt: nothing is returned, nothing is written.
C9_AttemptSuccess ==
    /\ [][(pc = "dc_check" /\ pc' # "dc_check") =>
             IF Acceptable(resp, chunk)
             THEN dcRet' = [returned |-> TRUE, err |-> NilErr,
                            data |-> resp.body]
             ELSE /\ ~dcRet'.returned
                  /\ attempt' = attempt + 1
                  /\ lastErr' # NilErr
                  /\ file' = file /\ writes' = writes]_vars
    /\ []((dcRet.returned /\ dcRet.err = NilErr) =>
             (Acceptable(resp, chunk) /\ dcRet.data = resp.body))
    /\ [](\A i \in 1..Len(writes) : writes[i][2] = chunks[i].Size)

C9_Witness ==
    /\ pc = "dc_ret" /\ dcRet.err = NilErr /\ attempt = 2
    /\ lastErr = <<"received wrong byte count">>
    /\ resp.status = 200 /\ Len(writes) = 1

EffectiveMaxRetries ==
    IF dcOptions.nil \/ dcOptions.MaxRetries <= 0 THEN 3
    ELSE dcOptions.MaxRetries

\* C10: one call of DownloadChunk puts at most MaxRetries + 1 GET requests on
\* the wire (4 with nil options or MaxRetries <= 0); the first attempt follows
\* no delay and every later attempt follows exactly one retry delay.
C10_RequestsBounded ==
    /\ wire <= EffectiveMaxRetries + 1
    /\ pc \in {"dc_get", "dc_flight", "dc_check"} => delays = attempt


(***************************************************************************)
(* Claims about Manager.Download (Spec).                                   *)
(***************************************************************************)
Done == entry = "manager" /\ pc = "done"

Success == Done /\ result.ok

\* the steps of Download before DownloadToFile is called
PreTransfer == {"m_find", "m_probe", "m_prepare", "m_path", "m_existing"}

\* C4: a success result comes with a file at the output path whose size
\* is the probed size and result.Size; when the size on disk after the
\* transfer differs from the probed size, Download ends with an error, also
\* when every chunk was fetched and written.
C4_SizeGuard ==
    /\ [](Success => /\ file.exists
                     /\ Len(file.data) = probed
                     /\ result.Size = probed)
    /\ [][(pc = "m_size" /\ pc' # "m_size" /\ Len(file.data) # probed)
            => (pc' = "done" /\ ~result'.ok /\ result'.err # NilErr)]_vars

\* both chunks of a two-chunk plan were written, the file is complete, and
\* Download failed on the size the service had probed
C4_Witness ==
    /\ Done /\ ~result.ok
    /\ result.err = <<"file size mismatch">>
    /\ Len(chunks) = 2 /\ Len(writes) = 2
    /\ file.data = Remote(remote)
    /\ probed = remote + 1

\* the digest of the file at the output path has the hex digits of `expected`
DigestMatches(f, expected) ==
    expected.set /\ CalculateHash(f).hex = expected.hex

\* C5 as stated: with an expected hash in the request, success only
\* when the file's hash equals it ignoring case, and result.Hash is that hash,
\* for every manager configuration; without one, result.Hash is empty.
C5_HashCheckedWhenRequested ==
    Success =>
        IF mgr.reqHash.set
        THEN DigestMatches(file, mgr.reqHash) /\ result.Hash = CalculateHash(file)
        ELSE result.Hash = EmptyStr

\* hash verification takes place when the VerifyHash option is on, the
\* request carries an expected hash and the file was transferred
HashVerified == mgr.VerifyHash /\ mgr.reqHash.set /\ ~result.short

\* C5 amended: when the VerifyHash option is on, the request carries an
\* expected hash and the file was transferred (not accepted as already
\* complete), success comes only with a file whose hash equals the expected
\* one ignoring case, and result.Hash is the calculated hash; in every other
\* success result.Hash is empty.
C5_HashCheckedWhenEnabled ==
    Success =>
        IF HashVerified
        THEN DigestMatches(file, mgr.reqHash) /\ result.Hash = CalculateHash(file)
        ELSE result.Hash = EmptyStr

\* a chunked download verified against the expected hash given in upper case
C5_Witness ==
    /\ Success /\ HashVerified
    /\ mgr.reqHash.upper
    /\ result.Hash = CalculateHash(FileOf(Remote(remote)))
    /\ Len(writes) > 1

\* C6: when DownloadToFile fails, Download ends with an error and no
\* file is left at the output path.
C6_FailedTransferLeavesNoFile ==
    (Done /\ dlErr # NilErr) =>
        /\ ~result.ok
        /\ result.err = Wrap("download failed", dlErr)
        /\ ~file.exists

\* C7 as stated: with a file of the probed size at the output path,
\* Download never starts a transfer, whether or not Resume is enabled, and
\* the result it returns has Speed 0, Resumed false and the existing size.
C7_ExistingFileNeverTransferred ==
    /\ pc = "tf_head" => ~checkExistingFile(file, probed)
    /\ (Done /\ result.short) =>
          /\ result.ok /\ result.Speed = 0 /\ ~result.Resumed
          /\ result.Size = Len(file.data)
          /\ ~httpUsed

\* C7 amended: with the Resume option enabled, a file of the probed size
\* at the output path makes Download return a success result with Speed 0,
\* Resumed false and Size the existing size, without a HEAD or GET and without
\* modifying the file; with Resume disabled there is no such result and the
\* file is downloaded again.
C7_ExistingFileWithResume ==
    /\ []((pc = "tf_head" /\ mgr.Resume) => ~checkExistingFile(file, probed))
    /\ []((Done /\ result.short) =>
             /\ mgr.Resume
             /\ result.ok /\ result.Speed = 0 /\ ~result.Resumed
             /\ result.Size = Len(file.data) /\ Len(file.data) = probed
             /\ file = FileOf(Garbled(probed))
             /\ ~httpUsed)
    /\ [][(pc \in PreTransfer) => (file' = file)]_vars

\* the existing three-byte file was accepted as complete
C7_Witness ==
    /\ Done /\ result.short /\ result.ok
    /\ mgr.Resume
    /\ probed = 3 /\ result.Size = 3
    /\ file = FileOf(Garbled(3))

\* C8 (the error's cause left aside, since a failure that has nothing to
\* do with the context may come first, and a file that was at the output path
\* before the call and was not touched is not counted): when the context is
\* cancelled before any chunk has completed, Download returns no success
\* result and leaves no file of the full probed size at the output path.
C8_CancelledNeverSucceeds ==
    (Done /\ sawCancel) =>
        /\ ~result.ok
        /\ (file.exists /\ Len(file.data) = probed)
              => (~httpUsed /\ file = FileOf(Garbled(probed)))

(***************************************************************************)
(* Claims about the errors of DownloadChunk (SpecChunked).                 *)
(***************************************************************************)
\* C11: DownloadChunk returns an error only when the context was cancelled
\* or every one of its MaxRetries + 1 attempts failed, and on exhaustion the
\* error wraps the last attempt's error; a successful attempt returns its body
\* and no further attempt follows; the error of downloadChunked carries the
\* Start-End range of the chunk that failed.
C11_ErrorsOfDownloadChunk ==
    /\ []((dcRet.returned /\ dcRet.err # NilErr) =>
             \/ ctxDone /\ dcRet.err = CtxErr
             \/ /\ attempt = EffectiveMaxRetries + 1
                /\ lastErr # NilErr
                /\ dcRet.err = <<"failed to download chunk after attempts">>
                                   \o lastErr)
    /\ []((dcRet.returned /\ dcRet.err = NilErr) => dcRet.data = resp.body)
    /\ [][dcRet.returned =>
             (pc' \in {"dc_ret", "ch_loop", "tf_ret"} /\ wire' \in {wire, 0})]_vars
    /\ []((pc = "tf_ret" /\ dlErr # NilErr /\ dlErr[1] = "failed to download chunk")
             => /\ chunkIdx \in 1..Len(chunks)
                /\ errRange = <<chunks[chunkIdx].Start, chunks[chunkIdx].End>>)
    /\ []((pc = "tf_ret" /\ errRange # <<>>) =>
             (dlErr # NilErr /\ dlErr[1] = "failed to download chunk"))

\* the second chunk (bytes 2-2 of three) used up its four attempts on
\* responses with a refused status, with no cancellation
C11_Witness ==
    /\ pc = "tf_ret" /\ ~ctxDone
    /\ dlErr = <<"failed to download chunk",
                 "failed to download chunk after attempts",
                 "unexpected status code">>
    /\ errRange = <<2, 2>>
    /\ chunkIdx = 2 /\ Len(writes) = 1

(***************************************************************************)
(* Claims about cancellation during the retry delay (SpecChunk).           *)
(***************************************************************************)
\* C12: when the context is cancelled while DownloadChunk waits in a retry
\* delay, the return of the context's error is possible at once, the wait is
\* left before the delay has elapsed only by returning the context's error,
\* and once the context is cancelled no further request goes on the wire.
C12_CancelEndsRetryDelay ==
    /\ []((pc = "dc_wait" /\ ctxDone) =>
             ENABLED (NextDownloadChunk /\ dcRet'.returned
                        /\ dcRet'.err = CtxErr /\ delays' = delays))
    /\ [][(pc = "dc_wait" /\ ctxDone /\ ~timerFired /\ pc' # "dc_wait") =>
             (/\ dcRet' = [returned |-> TRUE, err |-> CtxErr, data |-> <<>>]
              /\ pc' = "dc_ret"
              /\ delays' = delays)]_vars
    /\ [][ctxDone => (wire' = wire /\ httpUsed' = httpUsed)]_vars

\* cancelled in the delay before the second attempt: the context's error came
\* back with one request sent and no delay waited out
C12_Witness ==
    /\ pc = "dc_ret" /\ ctxDone
    /\ dcRet.err = CtxErr
    /\ attempt = 1 /\ delays = 0 /\ wire = 1
    /\ ~timerFired
    /\ lastErr = <<"unexpected status code">>

(***************************************************************************)
(* Claims about the strategy DownloadToFile chooses (Spec).                *)
(***************************************************************************)
HeadPcs == {"tf_head", "tf_head_flight"}

SimplePcs == {"sm_create", "sm_get", "sm_flight"}

ChunkedPcs == {"ch_create", "ch_loop", "dc_loop", "dc_wait", "dc_get",
               "dc_flight", "dc_rwait", "dc_check", "dc_ret"}

RangeCapable(info) == info.Size > 0 /\ info.SupportsRangeRequests

\* C13: after a successful probe DownloadToFile goes on with the
\* single-stream download whenever the probe gave size 0 or no range support,
\* and with the chunked download only when the size is positive and the server
\* advertised "Accept-Ranges: bytes"; it does not fail for want of range
\* support.
C13_StrategyFollowsProbe ==
    /\ [][(pc \in HeadPcs /\ fileInfo'.probed) =>
             IF RangeCapable(fileInfo')
             THEN pc' = "ch_create" /\ totalSize' = fileInfo'.Size
             ELSE pc' = "sm_create"]_vars
    /\ [][(pc \in HeadPcs /\ pc' = "tf_ret") => ~fileInfo'.probed]_vars
    /\ [](pc \in SimplePcs => (fileInfo.probed /\ ~RangeCapable(fileInfo)))
    /\ [](pc \in ChunkedPcs => (fileInfo.probed /\ RangeCapable(fileInfo)))
    /\ []((writes # <<>> \/ chunks # <<>>) => RangeCapable(fileInfo))

\* a resource of three bytes whose server does not advertise ranges was
\* downloaded in one stream and Download succeeded
C13_Witness ==
    /\ Success /\ ~result.short
    /\ fileInfo = [probed |-> TRUE, Size |-> 3, SupportsRangeRequests |-> FALSE]
    /\ writes = <<>> /\ chunks = <<>>
    /\ file = FileOf(Remote(3))

(***************************************************************************)
(* Claims about the failures before the transfer (Spec).                   *)
(***************************************************************************)
\* the errors of FindService, service.GetFileInfo and service.PrepareDownload
ServiceFailure(err) ==
    /\ err # NilErr
    /\ err[1] \in {"no service found for URL", "failed to get file info",
                   "failed to prepare download"}

\* C14: when no service supports the URL, or the service's GetFileInfo
\* or PrepareDownload fails, Download returns an error and no result, has sent
\* no HEAD or GET to the download URL, has not called os.MkdirAll and has left
\* the output path as it was.
C14_ServiceFailureTouchesNothing ==
    /\ []((Done /\ ServiceFailure(result.err)) =>
             /\ ~result.ok /\ result = [NoResult EXCEPT !.err = result.err]
             /\ ~httpUsed /\ ~fileInfo.probed
             /\ ~mkdirCalled
             /\ writes = <<>>)
    /\ [][(pc \in {"m_find", "m_probe", "m_prepare"}) =>
             (/\ file' = file /\ ~mkdirCalled' /\ ~httpUsed'
              /\ (pc' = "done" => ServiceFailure(result'.err)))]_vars

\* PrepareDownload failed while a file of two bytes was at the output path
C14_Witness ==
    /\ Done /\ ~result.ok
    /\ result.err = <<"failed to prepare download", "service error">>
    /\ file = FileOf(Garbled(2))
    /\ probed = 2
    /\ ~httpUsed /\ ~mkdirCalled

(***************************************************************************)
(* Claims about the ResumeManager (SpecResume, SpecRoundTrip).             *)
(***************************************************************************)
\* the step is a call `op` of the ResumeManager and its return (and not the
\* start of a SaveProgress, which returns in a later step)
ReturnOf(op) ==
    /\ rmCalls' # rmCalls
    /\ rmLast'.op = op
    /\ ~(saver.state # "writing" /\ saver'.state = "writing")

\* the record held by the resume file of `url`, nil when the file is absent,
\* unreadable or does not parse
Stored(files, url) ==
    LET f == files[getResumeFilename(url)] IN
    IF f.exists /\ f.readable /\ WellFormed(f.text)
    THEN Ptr(Unmarshal(f.text).data)
    ELSE NilProgress

\* the five conditions of a resumable download
Matches(files, stats, url, outputPath) ==
    LET rec == Stored(files, url) IN
    /\ ~rec.nil
    /\ rec.data.FilePath = outputPath
    /\ stats[outputPath].state = "file"
    /\ stats[outputPath].size = rec.data.Downloaded
    /\ stats[outputPath].mtime.wall <= rec.data.LastModified.wall

\* C15: IsResumable(url, outputPath) returns true exactly when a record is
\* stored in the resume file of url, its FilePath is outputPath, the output
\* file exists, its size is the record's Downloaded and its modification time
\* is not after the record's LastModified; with true it returns the stored
\* record, with false it returns no record.
C15_ResumableIffRecordMatchesFile ==
    [][ReturnOf("resumable") =>
          LET c == rmLast' IN
          /\ c.resumable <=> Matches(store, outputs, c.url, c.path)
          /\ c.resumable => c.out = Stored(store, c.url)
          /\ ~c.resumable => c.out.nil]_vars

\* IsResumable has answered true with the record saved earlier, after it
\* answered false, without an error, for the same url and another path
C15_Witness ==
    /\ rmLast.op = "resumable" /\ rmLast.resumable
    /\ rmLast.out = Ptr(OldRecord)
    /\ rmPrev.op = "resumable" /\ ~rmPrev.resumable /\ rmPrev.err = NilErr
    /\ rmPrev.url = rmLast.url /\ rmPrev.path # rmLast.path

\* C16: IsResumable never returns an error: a missing, unreadable or
\* unparseable resume record, or an output file that cannot be inspected,
\* yields false and no record with a nil error.
C16_ResumableNeverErrs ==
    rmLast.op = "resumable" =>
        /\ rmLast.err = NilErr
        /\ rmLast.resumable \/ rmLast.out.nil

\* every byte of the string is part of valid UTF-8
ValidUTF8(s) == \A i \in 1..Len(s) : s[i] # InvalidByte

\* a record JSON can carry: valid UTF-8 in its strings, a year up to 9999
Portable(r) ==
    /\ ValidUTF8(r.URL) /\ ValidUTF8(r.FilePath) /\ ValidUTF8(r.Hash)
    /\ r.LastModified.wall < BeyondYear9999

\* equal field by field, the times as instants
EqualRecords(a, b) ==
    /\ a.URL = b.URL /\ a.FilePath = b.FilePath /\ a.Hash = b.Hash
    /\ a.TotalSize = b.TotalSize /\ a.Downloaded = b.Downloaded
    /\ a.ChunkSize = b.ChunkSize
    /\ SameInstant(a.LastModified, b.LastModified)

\* C17 (as stated): SaveProgress(url, r) followed by LoadProgress(url)
\* returns a record equal to r in every field, for every url and record r.
C17_RoundTripOfEveryRecord ==
    (rmPrev.op = "save" /\ rmLast.op = "load" /\ rmLast.url = rmPrev.url
        /\ saver.state # "writing") =>
        /\ rmPrev.err = NilErr /\ rmLast.err = NilErr
        /\ ~rmLast.out.nil
        /\ EqualRecords(rmLast.out.data, progress)

\* C17 (amended): for a record whose strings are valid UTF-8 and whose
\* LastModified has a year up to 9999, a SaveProgress(url, r) that returned
\* nil, followed by LoadProgress(url) with no other call in between and no
\* ClearProgress(url) while the save was writing, returns a record equal to r
\* in every field, LastModified as the same instant.
C17_RoundTripOfPortableRecords ==
    [][(/\ ReturnOf("load")
        /\ rmLast.op = "save" /\ rmLast.err = NilErr
        /\ rmLast.url = rmLast'.url
        /\ saver.state = "done" /\ ~saver.unlinked
        /\ Portable(progress)) =>
          /\ rmLast'.err = NilErr
          /\ ~rmLast'.out.nil
          /\ EqualRecords(rmLast'.out.data, progress)]_vars

\* a record with a quote in its path and a monotonic clock reading has been
\* saved and loaded: the path came back, the clock reading did not
C17_Witness ==
    /\ rmPrev.op = "save" /\ rmPrev.err = NilErr
    /\ rmLast.op = "load" /\ rmLast.url = rmPrev.url
    /\ Portable(progress)
    /\ progress.FilePath = PathQ /\ progress.LastModified.mono
    /\ progress.Downloaded < 0 /\ progress.Hash # <<>>
    /\ ~rmLast.out.nil
    /\ rmLast.out.data.FilePath = PathQ
    /\ rmLast.out.data # progress

\* the record a resume file holds, nil when the file is absent
RecordIn(f) ==
    IF f.exists /\ f.readable /\ WellFormed(f.text)
    THEN Ptr(Unmarshal(f.text).data)
    ELSE NilProgress

\* the resume file was absent or held a record
Intact(f) == ~f.exists \/ ~RecordIn(f).nil

\* C18: SaveProgress is atomic for readers and under interruption: while a
\* SaveProgress(url) is writing, and after it was interrupted part-way, a
\* LoadProgress(url) returns the record stored before (absent if there was
\* none) or the complete new record, never an empty or partial record and
\* never a parse error.
C18_SaveIsAtomic ==
    (saver.state \in {"writing", "interrupted"} /\ ~saver.unlinked
        /\ Intact(saver.before)) =>
        LET l == LoadProgress(store, saver.url) IN
        /\ l.err = NilErr
        /\ l.out \in {RecordIn(saver.before), Ptr(Unmarshal(saver.text).data)}

\* C19: IsResumable(url, path) never returns true with a record whose URL
\* field differs from url, even when two URLs share a resume filename.
C19_RecordIsForTheUrl ==
    (rmLast.op = "resumable" /\ rmLast.resumable) =>
        (~rmLast.out.nil /\ rmLast.out.data.URL = rmLast.url)

\* C20: absence of a record is never an error: LoadProgress of a url with no
\* resume file returns no record and a nil error; ClearProgress of a url with
\* no resume file returns nil and changes nothing; after a ClearProgress that
\* returned nil the resume file of the url is absent.
C20_AbsenceIsNoError ==
    [][/\ (ReturnOf("load")
             /\ ~store[getResumeFilename(rmLast'.url)].exists) =>
              (rmLast'.out.nil /\ rmLast'.err = NilErr)
       /\ (ReturnOf("clear")
             /\ ~store[getResumeFilename(rmLast'.url)].exists) =>
              (rmLast'.err = NilErr /\ store' = store)
       /\ (ReturnOf("clear") /\ rmLast'.err = NilErr) =>
              ~store'[getResumeFilename(rmLast'.url)].exists]_vars

\* ClearProgress has returned nil twice in a row for one url, no SaveProgress
\* has run, and the resume file is absent
C20_Witness ==
    /\ rmPrev.op = "clear" /\ rmPrev.err = NilErr
    /\ rmLast.op = "clear" /\ rmLast.err = NilErr
    /\ rmLast.url = rmPrev.url
    /\ saver = NoSaver
    /\ ~store[getResumeFilename(rmLast.url)].exists

(***************************************************************************)
(* Claims about resuming and the worker pool (SpecResumeDownload).         *)
(***************************************************************************)
\* the Resume Store reported the download resumable when Download was called
\* (no step of Download changes the store, and `outputs` is the output file
\* as it was then)
ResumableAtStart == IsResumable(store, outputs, UrlA, PathP).resumable

\* record.Downloaded of the stored record
DownloadedSize == Stored(store, UrlA).data.Downloaded

\* the chunked transfer, once it has opened the output file
ChunkedRunning == pc \in (ChunkedPcs \ {"ch_create"})

\* C21: when resume is enabled, the strategy is chunked and the Resume Store
\* reports the download resumable, the engine does not truncate the partial
\* output file and fetches no chunk that lies entirely within its first
\* downloadedSize bytes.
C21_ResumeKeepsTheDownloadedBytes ==
    (mgr.Resume /\ ResumableAtStart /\ ChunkedRunning) =>
        /\ file.exists
        /\ Len(file.data) >= DownloadedSize
        /\ SubSeq(file.data, 1, DownloadedSize) = Remote(DownloadedSize)
        /\ inFlight > 0 => chunk.End >= DownloadedSize
        /\ \A i \in 1..Len(writes) :
              writes[i][1] + writes[i][2] > DownloadedSize

\* C22: whenever Manager.Download completes successfully, no Resume Store
\* record for the URL exists afterwards.
C22_SuccessClearsTheRecord ==
    Success => ~store[getResumeFilename(UrlA)].exists

\* C26 (as stated): at every moment of a chunked download the number of chunk
\* fetches in flight is at most the configured MaxConnections.
C26_InFlightWithinMaxConnections ==
    inFlight <= mgr.MaxConnections

\* C26 (amended): at every moment of a chunked download at most one chunk
\* fetch is in flight, whatever MaxConnections is; that is within
\* MaxConnections whenever MaxConnections is at least 1.
C26_OneFetchInFlight ==
    /\ inFlight <= 1
    /\ mgr.MaxConnections >= 1 => inFlight <= mgr.MaxConnections

\* with MaxConnections = 1 the fetch of a later chunk is on the wire after
\* an earlier chunk was fetched and written
C26_Witness ==
    /\ entry = "manager"
    /\ mgr.MaxConnections = 1
    /\ inFlight = 1 /\ pc = "dc_flight"
    /\ Len(writes) >= 1
    /\ chunk.Start > 0

(***************************************************************************)
(* Claims about progress.Tracker (SpecTracker).                            *)
(***************************************************************************)
NoCallInFlight == \A w \in Workers : At(w, {"idle"})

StillRunning == tracker.Status = TrackerRunning

FieldAccess == {"up_write", "up_unlock", "fin_status", "fin_field", "fin_unlock"}

\* C23: once every concurrent UpdateChunkProgress call on the download has
\* returned, the Downloaded value of the download is the sum of the Downloaded
\* values of its chunks.
C23_DownloadedIsTheSumOfTheChunks ==
    (entry = "tracker" /\ NoCallInFlight /\ StillRunning)
        => tracker.Downloaded = sumChunks(tracker.chunks, Workers)

\* C24: while the download is running and the byte count of every chunk only
\* grows, the Downloaded value of the download is never below a value it had
\* before.
C24_DownloadedNeverDecreases ==
    (entry = "tracker" /\ StillRunning) => tracker.Downloaded >= tracker.peak

\* C25: no two Tracker operations are inside their accesses to the Downloaded,
\* Status and Error fields of the same download at the same time.
C25_OneOperationAtATimeOnTheFields ==
    entry = "tracker" =>
        \A g, h \in Goroutines :
            (At(g, FieldAccess) /\ At(h, FieldAccess)) => g = h

(***************************************************************************)
(* Claims about the batch loop of the command line (SpecBatch).            *)
(***************************************************************************)
SomeDownloadFailed == \E k \in 1..Len(cli.attempted) : ~cli.attempted[k].ok

\* C27: the command line attempts every URL of the batch once, in list order,
\* whether or not earlier ones failed; at the end successCount + failCount is
\* the number of URLs and the exit code is non-zero exactly when a download
\* failed.
C27_BatchAttemptsEveryURLOnce ==
    entry = "cli" =>
        /\ Len(cli.attempted) <= Len(cli.urlList)
        /\ \A k \in 1..Len(cli.attempted) :
              cli.attempted[k].url = cli.urlList[k]
        /\ cli.pc = "exited" =>
              /\ Len(cli.attempted) = Len(cli.urlList)
              /\ cli.successCount + cli.failCount = Len(cli.urlList)
              /\ (cli.exitCode # 0) <=> SomeDownloadFailed

C27_Witness ==
    /\ entry = "cli"
    /\ cli.pc = "exited"
    /\ Len(cli.urlList) = MaxBatch
    /\ ~cli.attempted[1].ok
    /\ cli.attempted[MaxBatch].ok
    /\ cli.exitCode = 1

(***************************************************************************)
(* Claims about Manager.determineOutputPath (SpecPath).                    *)
(***************************************************************************)
ReturnedPath == entry = "path" /\ outPath.pc = "dop_returned" /\ outPath.err = NilErr

\* C28: determineOutputPath returns the explicit OutputPath when there is one,
\* otherwise the CustomFilename, otherwise the probed file name, otherwise
\* "download", each of the three joined with the output directory; and when it
\* returns without error the parent directory of the returned path exists.
C28_OutputPathPrecedence ==
    ReturnedPath =>
        /\ outPath.OutputPath # EmptyString
              => outPath.result = outPath.OutputPath
        /\ (outPath.OutputPath = EmptyString
            /\ outPath.CustomFilename # EmptyString)
              => outPath.result = Join(outPath.OutputDir, outPath.CustomFilename)
        /\ (outPath.OutputPath = EmptyString
            /\ outPath.CustomFilename = EmptyString
            /\ outPath.detectedFilename # EmptyString)
              => outPath.result = Join(outPath.OutputDir, outPath.detectedFilename)
        /\ (outPath.OutputPath = EmptyString
            /\ outPath.CustomFilename = EmptyString
            /\ outPath.detectedFilename = EmptyString)
              => outPath.result = Join(outPath.OutputDir, DefaultFilename)
        /\ Resolved(Dir(outPath.result)) \in outPath.fs.dirs

C28_Witness ==
    /\ ReturnedPath
    /\ outPath.OutputPath = EmptyString
    /\ outPath.CustomFilename = <<"s", "c">>
    /\ outPath.detectedFilename = <<"p">>
    /\ outPath.OutputDir = <<"/", "n", "m">>
    /\ outPath.result = <<"/", "n", "m", "s", "c">>
    /\ <<"/", "n", "m", "s">> \in outPath.fs.dirs
    /\ <<"/", "n", "m", "s">> \notin DiskAtStart.dirs

(***************************************************************************)
(* Claims about the service registry of the Manager (SpecRegistry).        *)
(***************************************************************************)
RegisteredAtLastFind == SubSeq(services.order, 1, services.last.at)

SupportersAtLastFind ==
    {k \in 1..services.last.at :
        IsSupported(services.order[k], services.last.url)}

\* C29: the list of the Manager is the services in the order they were
\* registered, nothing removed or reordered; FindService returns the earliest
\* registered service that supports the URL, and nil when none does.
C29_FirstRegisteredServiceWins ==
    entry = "registry" =>
        /\ services.list = services.order
        /\ SupportersAtLastFind = {}
              => services.last.found = NilService
        /\ SupportersAtLastFind # {}
              => \E k \in SupportersAtLastFind :
                    /\ services.last.found = RegisteredAtLastFind[k]
                    /\ \A j \in SupportersAtLastFind : k <= j

C29_Witness ==
    /\ entry = "registry"
    /\ services.list = <<"service2", "service12", "service1">>
    /\ services.last.url = "service1.com/f"
    /\ services.last.at = 3
    /\ services.last.found = "service12"

(***************************************************************************)
(* Claims about CleanupOldResumeData (SpecCleanup).                        *)
(***************************************************************************)
CleanupDone ==
    entry = "cleanup" /\ cleanup.pc = "cl_returned" /\ ~cleanup.ctxDone

NamesInDir == {CleanupNames[k] : k \in 1..Len(CleanupNames)}

OldFiles ==
    {n \in NamesInDir :
        /\ cleanup.before[n].kind = "file"
        /\ cleanup.before[n].mtime.wall < MaxTime - cleanup.maxAge}

\* C30 as stated: CleanupOldResumeData run to the end with a live context has
\* removed every regular file older than now - maxAge, has removed no other
\* entry, and returns nil.
C30_EveryOldFileRemoved ==
    CleanupDone =>
        /\ cleanup.err = NilErr
        /\ \A n \in OldFiles : cleanup.dir[n].kind = "absent"
        /\ \A n \in NamesInDir \ OldFiles : cleanup.dir[n] = cleanup.before[n]

\* C30: CleanupOldResumeData run to the end with a live context has removed
\* every regular file older than now - maxAge when the resume directory can be
\* read and written, has removed no other entry in any case, and returns nil
\* unless the directory cannot be read; then it returns an error and has
\* removed nothing.  In a directory it cannot write to, the old files stay
\* and it returns nil.
C30_OldFilesRemovedWhenTheDirectoryAllows ==
    CleanupDone =>
        /\ (cleanup.err = NilErr) <=> (cleanup.mode # "unreadable")
        /\ cleanup.mode = "writable"
              => \A n \in OldFiles : cleanup.dir[n].kind = "absent"
        /\ cleanup.mode # "writable"
              => \A n \in OldFiles : cleanup.dir[n] = cleanup.before[n]
        /\ \A n \in NamesInDir \ OldFiles : cleanup.dir[n] = cleanup.before[n]

C30_Witness ==
    /\ CleanupDone
    /\ cleanup.mode = "writable"
    /\ cleanup.err = NilErr
    /\ cleanup.maxAge = 1
    /\ cleanup.before["a.json"] = FileEntry(MaxTime - 2)
    /\ cleanup.before["b.json"] = FileEntry(MaxTime - 1)
    /\ cleanup.before["c"] = DirEntry(MaxTime - 2)
    /\ cleanup.dir["a.json"] = NoEntry
    /\ cleanup.dir["b.json"] = FileEntry(MaxTime - 1)
    /\ cleanup.dir["c"] = DirEntry(MaxTime - 2)

CleanupReturned == entry = "cleanup" /\ cleanup.pc = "cl_returned"

UntouchedFrom(k) ==
    \A j \in k..Len(cleanup.entries) :
        cleanup.dir[cleanup.entries[j]] = cleanup.before[cleanup.entries[j]]

\* C31 as stated: CleanupOldResumeData called with a context that is already
\* cancelled returns context.Canceled and has removed no file, whatever the
\* resume directory holds.
C31_CancelledCallReturnsCanceled ==
    (CleanupReturned /\ cleanup.cancelledBefore)
        => cleanup.err = CtxErr /\ cleanup.dir = cleanup.before

\* C31: CleanupOldResumeData called with a context that is already cancelled
\* removes no file; it returns context.Canceled when the resume directory can
\* be read and lists an entry, nil when it lists none, and the read error when
\* it cannot be read.  When the loop sees the cancellation before an entry it
\* returns the cancellation error and that entry and the ones after it are
\* left as they were.
C31_CancellationStopsTheScan ==
    CleanupReturned =>
        /\ cleanup.cancelledBefore =>
              /\ cleanup.dir = cleanup.before
              /\ cleanup.mode = "unreadable"
                    => cleanup.err = Wrap("failed to read resume directory",
                                          PermissionErr)
              /\ (cleanup.mode # "unreadable" /\ cleanup.entries # <<>>)
                    => cleanup.err = CtxErr
              /\ (cleanup.mode # "unreadable" /\ cleanup.entries = <<>>)
                    => cleanup.err = NilErr
        /\ cleanup.cancelPos \in 1..Len(cleanup.entries) =>
              /\ cleanup.err = CtxErr
              /\ cleanup.i = cleanup.cancelPos
        /\ cleanup.err = CtxErr => UntouchedFrom(cleanup.i)

C31_Witness ==
    /\ CleanupReturned
    /\ cleanup.mode = "writable"
    /\ cleanup.maxAge = 0
    /\ cleanup.cancelPos = 2
    /\ cleanup.err = CtxErr
    /\ cleanup.before["a.json"] = FileEntry(0)
    /\ cleanup.before["b.json"] = FileEntry(0)
    /\ cleanup.dir["a.json"] = NoEntry
    /\ cleanup.dir["b.json"] = FileEntry(0)

(***************************************************************************)
(* More claims about Manager.Download (Spec).                              *)
(***************************************************************************)
HashMismatch == <<"hash verification failed">>

\* C32: when Download fails because the hash does not match, the step that
\* fails leaves the downloaded file as it is, and the file is at the output
\* path with the size that was checked when Download has returned.
C32_HashMismatchKeepsTheFile ==
    /\ [][(entry = "manager" /\ pc = "m_hash"
           /\ result'.err = HashMismatch)
             => (file.exists /\ file' = file)]_vars
    /\ []((Done /\ result.err = HashMismatch) =>
             /\ ~result.ok
             /\ file.exists
             /\ Len(file.data) = probed)

C32_Witness ==
    /\ Done /\ result.err = HashMismatch
    /\ httpUsed /\ Len(writes) > 1
    /\ file = FileOf(Remote(remote))
    /\ mgr.reqHash = CalculateHash(FileOf(Garbled(1)))

\* C33: a download whose probed size is 0 because the service does not know
\* it, and whose transfer succeeded in writing a non-empty body, ends with a
\* success result.
C33_UnknownSizeSucceeds ==
    (Done /\ probed = 0 /\ httpUsed /\ dlErr = NilErr
          /\ file.exists /\ Len(file.data) > 0
          /\ ~(mgr.VerifyHash /\ mgr.reqHash.set))
        => result.ok

Probing == {"m_find", "m_probe", "m_prepare"}
Planning == {"m_path", "m_existing"}
Verifying == {"m_size", "m_hash"}

\* the phase of Download a position belongs to; every position inside
\* DownloadToFile is Transferring
PhaseOf(p) ==
    IF p \in Probing THEN 1
    ELSE IF p \in Planning THEN 2
    ELSE IF p \in Verifying THEN 4
    ELSE IF p = "done" THEN 5
    ELSE 3

\* C34: within one Download the phases follow one another in the order
\* Probing, Planning, Transferring, Verifying, Completed or Failed; the output
\* file is not created, truncated or written during Probing and Planning; the
\* size check runs only after the transfer returned nil; the hash is computed
\* only after the size check passed; nothing runs after the return.
C34_PhasesInOrder ==
    /\ [][PhaseOf(pc') >= PhaseOf(pc)]_vars
    /\ [][PhaseOf(pc) <= 2 => (file' = file /\ writes' = writes
                               /\ httpUsed' = httpUsed)]_vars
    /\ [](PhaseOf(pc) <= 2 => (writes = <<>> /\ ~httpUsed))
    /\ [](pc = "m_path" => probed \in {0, remote, remote + 1})
    /\ [](pc = "tf_head" => mkdirCalled)
    /\ [](pc \in Verifying => (dlErr = NilErr /\ httpUsed))
    /\ [](pc = "m_hash" => (file.exists /\ Len(file.data) = probed))
    /\ [][pc = "done" => (pc' = "done" /\ file' = file /\ result' = result
                          /\ writes' = writes)]_vars

C34_Witness ==
    /\ Done /\ result.ok /\ ~result.short
    /\ mgr.VerifyHash /\ result.Hash = CalculateHash(file)
    /\ Len(writes) > 1
    /\ mkdirCalled

(***************************************************************************)
(* More claims about downloadChunked (SpecChunked).                        *)
(***************************************************************************)
\* DownloadChunk has returned an error to downloadChunked: its retries are
\* used up or the context was cancelled
FetchFailed == entry = "chunked" /\ pc = "dc_ret" /\ dcRet.err # NilErr

TransferAborted == entry = "chunked" /\ dlErr # NilErr

\* C35: once the fetch of a chunk has failed for good or a write has failed,
\* downloadChunked starts no request for another chunk and writes nothing more
\* to the output file: its next step is the return of the error.
C35_FailureStopsTheTransfer ==
    /\ [][(FetchFailed \/ TransferAborted) =>
             /\ pc' \in {"dc_ret", "tf_ret"}
             /\ inFlight' = 0
             /\ wire' \in {wire, 0}
             /\ fetched' = fetched
             /\ writes' = writes
             /\ file' = file
             /\ chunkIdx' = chunkIdx]_vars
    /\ [][(FetchFailed /\ pc' # pc) => dlErr' # NilErr]_vars
    /\ [](TransferAborted => pc = "tf_ret")

C35_Witness ==
    /\ TransferAborted
    /\ errRange # <<>>
    /\ Len(chunks) >= 3
    /\ chunkIdx = 2
    /\ Len(writes) = 1
    /\ Len(file.data) = chunks[1].Size

(***************************************************************************)
(* More claims about progress.Tracker (SpecTracker).                       *)
(***************************************************************************)
CompleteReturned ==
    /\ entry = "tracker"
    /\ At(Finisher, {"done"})
    /\ tracker.calls[Finisher].op = "CompleteDownload"

\* C36: once CompleteDownload has returned, the Status of the download is
\* Completed and its Downloaded is TotalBytes in every later state, whatever
\* calls of UpdateProgress and UpdateChunkProgress run beside it or after it.
C36_CompletedStaysCompleted ==
    CompleteReturned =>
        /\ tracker.Status = TrackerCompleted
        /\ tracker.Downloaded = TotalBytes

(***************************************************************************)
(* More claims about the ResumeManager (SpecResume).                       *)
(***************************************************************************)
\* C37: the records of distinct URLs are independent: after a LoadProgress(u2)
\* and then a SaveProgress(u1) or ClearProgress(u1) with u1 different from u2,
\* LoadProgress(u2) still returns what it returned before.
C37_DistinctUrlsAreIndependent ==
    (/\ entry = "resume"
     /\ rmPrev.op = "load"
     /\ rmLast.op \in {"save", "clear"}
     /\ rmLast.url # rmPrev.url
     /\ saver.state # "writing")
        => /\ LoadProgress(store, rmPrev.url).out = rmPrev.out
           /\ LoadProgress(store, rmPrev.url).err = rmPrev.err

\* the options of the call carry a ProgressFunc
HasProgressFunc == ~dcOptions.nil /\ dcOptions.ProgressFunc

\* the i-th call of ProgressFunc came after the i-th chunk was written at its
\* offset
ReportedAfterWrite(i) ==
    /\ i <= Len(writes)
    /\ i <= Len(chunks)
    /\ writes[i][1] = chunks[i].Start

\* C39: in a chunked download that succeeds with a ProgressFunc, ProgressFunc
\* was called exactly once per chunk, each call after the chunk's bytes were
\* written; the reported counts increase strictly, none exceeds totalSize, and
\* the last one equals totalSize.
C39_ProgressReportedOncePerChunk ==
    /\ (entry = "chunked" /\ HasProgressFunc) =>
          \A i \in 1..Len(reports) : ReportedAfterWrite(i)
    /\ (ChunkedSucceeded /\ HasProgressFunc) =>
          /\ Len(reports) = Len(chunks)
          /\ \A i \in 1..Len(reports) :
                /\ reports[i][2] = totalSize
                /\ reports[i][1] <= totalSize
                /\ i > 1 => reports[i - 1][1] < reports[i][1]
          /\ reports # <<>>
          /\ reports[Len(reports)][1] = totalSize

\* a successful download of two chunks of different sizes, reported twice
C39_Witness ==
    /\ ChunkedSucceeded /\ HasProgressFunc
    /\ Len(reports) = 2
    /\ chunks[1].Size # chunks[2].Size
    /\ reports[2][1] = totalSize

(***************************************************************************)
(* Claims about the concurrent calls of the Tracker (SpecCallsFair).       *)
(***************************************************************************)
InCall(g) == tcalls.calls[g].at > 0

\* the caller has announced its Lock() and readers still hold the lock
BlockedByReaders(g) ==
    /\ InCall(g)
    /\ tcalls.calls[g].arrived
    /\ LET c == tcalls.calls[g]
           sec == Sections(c.op, c.obj)[c.at]
       IN  sec[2] = "Lock" /\ tcalls.locks[sec[1]].readers # {}

\* C38: no interleaving of the Tracker's methods deadlocks: under fair
\* scheduling every call of StartDownload, AddChunk, UpdateChunkProgress,
\* UpdateProgress, SetChunkStatus, CompleteDownload, FailDownload,
\* GetProgress, GetAllProgress and RemoveDownload gets its locks and returns,
\* and every check of WaitForCompletion gets the read lock and gives it
\* back.  A writer that waits for readers is inside a call, so it does not
\* wait forever either.
C38_EveryCallReturns ==
    /\ \A g \in Callers : InCall(g) ~> ~InCall(g)
    /\ (tcalls.waiter.pc = "check") ~> (tcalls.waiter.pc # "check")

\* a writer waits for the check of WaitForCompletion to leave t.mu while the
\* other caller's RLock waits for the writer
C38_Witness ==
    /\ \E g \in Callers : BlockedByReaders(g)
    /\ Waiter \in tcalls.locks[TMu].readers
    /\ tcalls.locks[TMu].blocked # {}

(***************************************************************************)
(* Claims about WaitForCompletion (SpecWaitFair).                          *)
(***************************************************************************)
Unsettled == {TrackerRunning, TrackerPending}

NoneRunningOrPending == \A id \in Ids : tcalls.downloads[id] \notin Unsettled

WaiterInCall == tcalls.waiter.pc \in {"select", "check", "ret_nil"}

WaiterReturned == tcalls.waiter.pc = "returned"

\* C40 as stated: WaitForCompletion returns nil only at a moment when no
\* tracked download is Running or Pending, and it returns the context's
\* error if the context was cancelled first, before the downloads were done.
C40_NilOnlyWhenDoneErrorIfCancelledFirst ==
    /\ tcalls.waiter.result = "nil" => ~tcalls.waiter.busyAtReturn
    /\ (WaiterReturned /\ tcalls.waiter.cancelledFirst) =>
          tcalls.waiter.result = "canceled"

\* C40: WaitForCompletion returns nil only after a check under t.mu.RLock()
\* that found no tracked download Running or Pending; it returns the
\* context's error only when the context is cancelled; under fairness it
\* returns once the context is cancelled, and it returns once every tracked
\* download is and stays Completed, Failed, Paused, Cancelled or absent,
\* with nil when the context is never cancelled.
C40_WaitReturnsAfterACleanCheck ==
    /\ [][(tcalls'.waiter.pc = "ret_nil" /\ tcalls.waiter.pc # "ret_nil") =>
             /\ tcalls.waiter.pc = "check"
             /\ Waiter \in tcalls.locks[TMu].readers
             /\ NoneRunningOrPending]_vars
    /\ [][(tcalls'.waiter.result = "nil" /\ tcalls.waiter.result # "nil") =>
             tcalls.waiter.pc = "ret_nil"]_vars
    /\ [](tcalls.waiter.result = "canceled" => tcalls.ctxDone)
    /\ (WaiterInCall /\ tcalls.ctxDone) ~> WaiterReturned
    /\ []((WaiterInCall /\ []NoneRunningOrPending) => <>WaiterReturned)

\* WaitForCompletion went round its loop until the download was completed and
\* returned nil, although the context had been cancelled before that
C40_Witness ==
    /\ WaiterReturned
    /\ tcalls.waiter.result = "nil"
    /\ tcalls.waiter.cancelledFirst
    /\ ~tcalls.waiter.busyAtReturn
    /\ tcalls.downloads["d1"] = TrackerCompleted

====
